---------------------------- MODULE Spec2Model ----------------------------
(***************************************************************************)
(* Hot-tier account storage (accounts-db/src/tiered_storage/hot.rs):       *)
(* the offset codec, the packed metadata word, the fixed metadata record,  *)
(* the reader and the sequential write pass that produces a file.          *)
(*                                                                         *)
(* Numbers wider than 31 bits (usize offsets around u32::MAX * 8, u32      *)
(* words) are two-limb numerals <<hi, lo>> of base 2^20, so that the       *)
(* program's own constants are kept; u64 and u32 fields of the file are    *)
(* their little-endian bytes.                                              *)
(***************************************************************************)
EXTENDS Integers, Sequences, FiniteSets, TLC

VARIABLES
  codec,    \* the last HotAccountOffset call and what it returned
  builder,  \* the HotAccountMeta under construction, or the panic that ended it
  fs,       \* the file at the storage path: whether it exists, and its bytes
  wr,       \* the sequential write pass: its position and what it has written
  rd,       \* the HotStorageReader: its copy of the footer (its mmap is fs.bytes)
  scan,     \* a caller enumerating the accounts with get_account
  out,      \* the last lookup made on the reader and what it returned
  th,       \* the threads that share the reader: each one's call and its result
  attempts, \* what every HotStorageWriter::new on the path returned, in order
  settlement \* the fee-settlement data account and the last instruction on it

storeVars == <<fs, wr, rd, scan, out, th, attempts, settlement>>

vars == <<codec, builder, fs, wr, rd, scan, out, th, attempts, settlement>>

Pow2(n) == 2 ^ n

(***************************************************************************)
(* Two-limb numerals: the value of <<hi, lo>> is hi * 2^20 + lo.           *)
(***************************************************************************)
LIMB == Pow2(20)

Wide(n) == <<n \div LIMB, n % LIMB>>

WEq(a, b) == a[1] = b[1] /\ a[2] = b[2]

WLe(a, b) == a[1] < b[1] \/ (a[1] = b[1] /\ a[2] <= b[2])

WLt(a, b) == WLe(a, b) /\ ~WEq(a, b)

WAdd(a, b) == <<a[1] + b[1] + ((a[2] + b[2]) \div LIMB), (a[2] + b[2]) % LIMB>>

\* a - b for b <= a
WSub(a, b) ==
  IF a[2] >= b[2] THEN <<a[1] - b[1], a[2] - b[2]>>
  ELSE <<a[1] - b[1] - 1, a[2] + LIMB - b[2]>>

\* usize::saturating_sub
WSatSub(a, b) == IF WLe(a, b) THEN <<0, 0>> ELSE WSub(a, b)

WMod8(a) == a[2] % 8

WDiv8(a) == <<a[1] \div 8, (a[2] \div 8) + (a[1] % 8) * (LIMB \div 8)>>

WMul8(a) == <<a[1] * 8 + ((a[2] * 8) \div LIMB), (a[2] * 8) % LIMB>>

\* `as u32`: the low 32 bits
AsU32(a) == <<a[1] % Pow2(12), a[2]>>

WIsSmall(a) == a[1] < Pow2(10)

WInt(a) == a[1] * LIMB + a[2]

U32_MAX == <<Pow2(12) - 1, LIMB - 1>>

(***************************************************************************)
(* Constants of hot.rs.                                                    *)
(***************************************************************************)
MAX_HOT_PADDING == 7

MAX_HOT_OWNER_OFFSET == Pow2(29) - 1

HOT_ACCOUNT_ALIGNMENT == 8

MAX_HOT_ACCOUNT_OFFSET == WMul8(U32_MAX)

HotAccountMetaSize == 8 + 4 + 4

(***************************************************************************)
(* Results and errors.  The diagnostics of an offset error are usize.      *)
(***************************************************************************)
Ok(v) == [tag |-> "Ok", value |-> v]

OffsetOutOfBounds(a, b) == [tag |-> "OffsetOutOfBounds", a |-> a, b |-> b]

OffsetAlignmentError(a, b) == [tag |-> "OffsetAlignmentError", a |-> a, b |-> b]

IsOk(r) == r.tag = "Ok"

(***************************************************************************)
(* The offset codec.  A HotAccountOffset is its u32 word.                  *)
(***************************************************************************)
NewWithoutRangeCheck(offset) ==
  IF WMod8(offset) # 0
    THEN OffsetAlignmentError(offset, Wide(HOT_ACCOUNT_ALIGNMENT))
    ELSE Ok(AsU32(WDiv8(offset)))

NewAlignmentFirst(offset) ==
  IF WMod8(offset) # 0
    THEN OffsetAlignmentError(offset, Wide(HOT_ACCOUNT_ALIGNMENT))
  ELSE IF ~WLe(offset, MAX_HOT_ACCOUNT_OFFSET)
    THEN OffsetOutOfBounds(offset, MAX_HOT_ACCOUNT_OFFSET)
  ELSE Ok(AsU32(WDiv8(offset)))

NewSwappedDiagnostics(offset) ==
  IF ~WLe(offset, MAX_HOT_ACCOUNT_OFFSET)
    THEN OffsetOutOfBounds(MAX_HOT_ACCOUNT_OFFSET, offset)
  ELSE IF WMod8(offset) # 0
    THEN OffsetAlignmentError(Wide(HOT_ACCOUNT_ALIGNMENT), offset)
  ELSE Ok(AsU32(WDiv8(offset)))

HotAccountOffset_new(offset) ==
  IF ~WLe(offset, MAX_HOT_ACCOUNT_OFFSET)
    THEN OffsetOutOfBounds(offset, MAX_HOT_ACCOUNT_OFFSET)
  ELSE IF WMod8(offset) # 0
    THEN OffsetAlignmentError(offset, Wide(HOT_ACCOUNT_ALIGNMENT))
  ELSE Ok(AsU32(WDiv8(offset)))

OffsetUnscaled(self) == self

HotAccountOffset_offset(self) == WMul8(self)

(***************************************************************************)
(* HotMetaPackedFields: a 32-bit bitfield kept as its four bytes, padding  *)
(* in bits 0..2 and owner_offset in bits 3..31.  A setter given a value    *)
(* that does not fit its field panics.                                     *)
(***************************************************************************)
Panic(msg) == [tag |-> "Panic", msg |-> msg]

PADDING_BITS == 3

OWNER_OFFSET_BITS == 29

HotMetaPackedFields_default == <<0, 0, 0, 0>>

HotMetaPackedFields_padding(pf) == pf[1] % Pow2(PADDING_BITS)

HotMetaPackedFields_owner_offset(pf) ==
  (pf[1] \div Pow2(PADDING_BITS)) + pf[2] * Pow2(5) + pf[3] * Pow2(13) + pf[4] * Pow2(21)

SetPaddingClobbersWord(pf, padding) ==
  IF padding >= Pow2(PADDING_BITS)
    THEN Panic("value out of bounds for field HotMetaPackedFields.padding")
    ELSE Ok(<<padding, 0, 0, 0>>)

HotMetaPackedFields_set_padding(pf, padding) ==
  IF padding >= Pow2(PADDING_BITS)
    THEN Panic("value out of bounds for field HotMetaPackedFields.padding")
    ELSE Ok([pf EXCEPT ![1] = (pf[1] \div Pow2(PADDING_BITS)) * Pow2(PADDING_BITS) + padding])

HotMetaPackedFields_set_owner_offset(pf, owner_offset) ==
  IF owner_offset >= Pow2(OWNER_OFFSET_BITS)
    THEN Panic("value out of bounds for field HotMetaPackedFields.owner_offset")
    ELSE Ok(<<(pf[1] % Pow2(PADDING_BITS)) + (owner_offset % Pow2(5)) * Pow2(PADDING_BITS),
              (owner_offset \div Pow2(5)) % 256,
              (owner_offset \div Pow2(13)) % 256,
              (owner_offset \div Pow2(21)) % 256>>)

(***************************************************************************)
(* AccountMetaFlags: a 32-bit bitfield kept as its four bytes,             *)
(* has_rent_epoch in bit 0 and has_account_hash in bit 1.                  *)
(***************************************************************************)
AccountMetaFlags_new == <<0, 0, 0, 0>>

AccountMetaFlags_from(rent_epoch, account_hash) ==
  <<(IF rent_epoch THEN 1 ELSE 0) + (IF account_hash THEN 2 ELSE 0), 0, 0, 0>>

AccountMetaFlags_has_rent_epoch(flags) == flags[1] % 2 = 1

AccountMetaFlags_has_account_hash(flags) == (flags[1] \div 2) % 2 = 1

(***************************************************************************)
(* HotAccountMeta: lamports (a u64, its eight little-endian bytes), the    *)
(* packed word and the flags word.                                         *)
(***************************************************************************)
U64_ZERO == <<0, 0, 0, 0, 0, 0, 0, 0>>

HotAccountMeta_new ==
  [lamports |-> U64_ZERO,
   packed_fields |-> HotMetaPackedFields_default,
   flags |-> AccountMetaFlags_new]

HotAccountMeta_with_lamports(self, lamports) == [self EXCEPT !.lamports = lamports]

WithPaddingUnchecked(self, padding) ==
  LET r == HotMetaPackedFields_set_padding(self.packed_fields, padding)
  IN IF IsOk(r) THEN Ok([self EXCEPT !.packed_fields = r.value]) ELSE r

HotAccountMeta_with_account_data_padding(self, padding) ==
  IF padding > MAX_HOT_PADDING
    THEN Panic("padding exceeds MAX_HOT_PADDING")
    ELSE LET r == HotMetaPackedFields_set_padding(self.packed_fields, padding)
         IN IF IsOk(r) THEN Ok([self EXCEPT !.packed_fields = r.value]) ELSE r

HotAccountMeta_with_owner_offset(self, owner_offset) ==
  IF owner_offset > MAX_HOT_OWNER_OFFSET
    THEN Panic("owner_offset exceeds MAX_HOT_OWNER_OFFSET")
    ELSE LET r == HotMetaPackedFields_set_owner_offset(self.packed_fields, owner_offset)
         IN IF IsOk(r) THEN Ok([self EXCEPT !.packed_fields = r.value]) ELSE r

\* as if the size were kept in the spare bytes of the flags word
WithDataSizeStoresIt(self, account_data_size) ==
  [self EXCEPT !.flags = <<@[1], account_data_size % 256, (account_data_size \div 256) % 256, @[4]>>]

HotAccountMeta_with_account_data_size(self, account_data_size) == self

HotAccountMeta_with_flags(self, flags) == [self EXCEPT !.flags = flags]

HotAccountMeta_lamports(self) == self.lamports

HotAccountMeta_account_data_padding(self) == HotMetaPackedFields_padding(self.packed_fields)

HotAccountMeta_owner_offset(self) == HotMetaPackedFields_owner_offset(self.packed_fields)

HotAccountMeta_flags(self) == self.flags

(***************************************************************************)
(* Bytes.  A file, a mapping and every field in them is a sequence of      *)
(* bytes; integers are little-endian.                                      *)
(***************************************************************************)
RECURSIVE LEInt(_)
LEInt(b) == IF Len(b) = 0 THEN 0 ELSE b[1] + 256 * LEInt(Tail(b))

RECURSIVE LEBytes(_, _)
LEBytes(n, k) == IF k = 0 THEN <<>> ELSE <<n % 256>> \o LEBytes(n \div 256, k - 1)

\* the four bytes of a u32 held as a two-limb numeral, and back
U32Bytes(w) ==
  <<w[2] % 256, (w[2] \div 256) % 256, (w[2] \div 65536) + (w[1] % 16) * 16, w[1] \div 16>>

U32FromBytes(b) == <<(b[3] \div 16) + b[4] * 16, b[1] + b[2] * 256 + (b[3] % 16) * 65536>>

Slice(bytes, offset, len) == SubSeq(bytes, offset + 1, offset + len)

Fill(byte, len) == [i \in 1 .. len |-> byte]

Err(kind) == [tag |-> "Err", kind |-> kind]

PUBKEY_BYTES == 32

\* the k-th address handed out by Pubkey::new_unique
Pubkey(k) == [i \in 1 .. PUBKEY_BYTES |-> IF i = 1 THEN k ELSE 0]

(***************************************************************************)
(* mmap_utils: a read of `size` bytes at `offset` fails when it would run  *)
(* past the end of the mapping.                                            *)
(***************************************************************************)
get_pod(mmap, offset, size) ==
  IF offset + size > Len(mmap) THEN Err("Io") ELSE Ok(Slice(mmap, offset, size))

\* offset and len are usize numerals here: a corrupt file can make them huge
get_slice(mmap, offset, len) ==
  IF ~WLe(WAdd(offset, len), Wide(Len(mmap)))
    THEN Err("Io")
    ELSE Ok(Slice(mmap, WInt(offset), WInt(len)))

(***************************************************************************)
(* The layout of HotAccountMeta (repr(C), 16 bytes): lamports at 0, the    *)
(* packed word at 8, the flags at 12.                                      *)
(***************************************************************************)
MetaBytesFlagsFirst(meta) == meta.lamports \o meta.flags \o meta.packed_fields

HotAccountMeta_bytes(meta) == meta.lamports \o meta.packed_fields \o meta.flags

HotAccountMeta_from_bytes(b) ==
  [lamports |-> SubSeq(b, 1, 8), packed_fields |-> SubSeq(b, 9, 12), flags |-> SubSeq(b, 13, 16)]

(***************************************************************************)
(* The optional fields that follow the data and padding of a block.        *)
(***************************************************************************)
RENT_EPOCH_BYTES == 8

ACCOUNT_HASH_BYTES == 32

AccountMetaOptionalFields_size_from_flags(flags) ==
  (IF AccountMetaFlags_has_rent_epoch(flags) THEN RENT_EPOCH_BYTES ELSE 0)
    + (IF AccountMetaFlags_has_account_hash(flags) THEN ACCOUNT_HASH_BYTES ELSE 0)

\* as if the subtractions of the sizes were plain ones
PlainSub(a, b) == a - b

SatSub(a, b) == IF a > b THEN a - b ELSE 0

\* as if the optional fields were looked for at the very end of the block
OptionalFieldsOffsetIgnoresFlags(self, account_block) == Len(account_block)

HotAccountMeta_optional_fields_offset(self, account_block) ==
  SatSub(Len(account_block), AccountMetaOptionalFields_size_from_flags(self.flags))

DataSizeIgnoresPadding(self, account_block) ==
  HotAccountMeta_optional_fields_offset(self, account_block)

\* as if the padding were subtracted without a floor at zero
DataSizeWithoutFloor(self, account_block) ==
  HotAccountMeta_optional_fields_offset(self, account_block)
    - HotAccountMeta_account_data_padding(self)

HotAccountMeta_account_data_size(self, account_block) ==
  SatSub(HotAccountMeta_optional_fields_offset(self, account_block),
         HotAccountMeta_account_data_padding(self))

HotAccountMeta_account_data(self, account_block) ==
  SubSeq(account_block, 1, HotAccountMeta_account_data_size(self, account_block))

\* an Option that holds a value (None is the one that holds nothing)
SomeOf(v) == [some |-> TRUE, value |-> v]

\* byte_block::read_pod: nothing when the value would run past the block
read_pod(byte_block, offset, size) ==
  IF offset + size > Len(byte_block)
    THEN [some |-> FALSE]
    ELSE SomeOf(Slice(byte_block, offset, size))

\* the optional fields lie in the order rent_epoch, account_hash
AccountMetaOptionalFields_rent_epoch_offset(flags) == 0

AccountMetaOptionalFields_account_hash_offset(flags) ==
  AccountMetaOptionalFields_rent_epoch_offset(flags)
    + (IF AccountMetaFlags_has_rent_epoch(flags) THEN RENT_EPOCH_BYTES ELSE 0)

\* as if the rent epoch were read whatever the flags say
RentEpochIgnoresFlag(self, account_block) ==
  read_pod(account_block,
           HotAccountMeta_optional_fields_offset(self, account_block)
             + AccountMetaOptionalFields_rent_epoch_offset(self.flags),
           RENT_EPOCH_BYTES)

HotAccountMeta_rent_epoch(self, account_block) ==
  IF AccountMetaFlags_has_rent_epoch(self.flags)
    THEN read_pod(account_block,
                  HotAccountMeta_optional_fields_offset(self, account_block)
                    + AccountMetaOptionalFields_rent_epoch_offset(self.flags),
                  RENT_EPOCH_BYTES)
    ELSE [some |-> FALSE]

HotAccountMeta_account_hash(self, account_block) ==
  IF AccountMetaFlags_has_account_hash(self.flags)
    THEN read_pod(account_block,
                  HotAccountMeta_optional_fields_offset(self, account_block)
                    + AccountMetaOptionalFields_account_hash_offset(self.flags),
                  ACCOUNT_HASH_BYTES)
    ELSE [some |-> FALSE]

(***************************************************************************)
(* The footer: the tags of the four formats, the number of accounts and of *)
(* owners, where the index block and the owners block start, and the magic *)
(* number that ends the file.                                              *)
(***************************************************************************)
FOOTER_MAGIC_NUMBER == <<181, 42, 42, 80, 0, 0, 0, 0>>

FOOTER_SIZE == 40

HOT_FORMAT_TAGS == <<0, 0, 0, 0, 0, 0, 0, 0>>

TieredStorageFooter_default ==
  [account_entry_count |-> 0, owner_count |-> 0,
   index_block_offset |-> 0, owners_block_offset |-> 0]

TieredStorageFooter_bytes(footer) ==
  HOT_FORMAT_TAGS
    \o LEBytes(footer.account_entry_count, 4)
    \o LEBytes(footer.owner_count, 4)
    \o LEBytes(footer.index_block_offset, 8)
    \o LEBytes(footer.owners_block_offset, 8)
    \o FOOTER_MAGIC_NUMBER

TieredStorageFooter_new_from_mmap(mmap) ==
  IF Len(mmap) < FOOTER_SIZE
    THEN Err("Io")
  ELSE IF Slice(mmap, Len(mmap) - 8, 8) # FOOTER_MAGIC_NUMBER
    THEN Err("MagicNumberMismatch")
  ELSE LET at == Len(mmap) - FOOTER_SIZE
       IN Ok([account_entry_count |-> LEInt(Slice(mmap, at + 8, 4)),
              owner_count |-> LEInt(Slice(mmap, at + 12, 4)),
              index_block_offset |-> LEInt(Slice(mmap, at + 16, 8)),
              owners_block_offset |-> LEInt(Slice(mmap, at + 24, 8))])

(***************************************************************************)
(* The index block (AddressesThenOffsets): the addresses of the accounts,  *)
(* then their offsets.  The owners block (AddressesOnly): the addresses.   *)
(***************************************************************************)
RECURSIVE Concat(_)
Concat(seqs) == IF Len(seqs) = 0 THEN <<>> ELSE seqs[1] \o Concat(Tail(seqs))

IndexBlock_bytes(entries) ==
  Concat([i \in 1 .. Len(entries) |-> entries[i].address])
    \o Concat([i \in 1 .. Len(entries) |-> U32Bytes(entries[i].offset)])

OwnersBlock_bytes(addresses) == Concat(addresses)

IndexBlock_get_account_offset(mmap, footer, index_offset) ==
  LET r == get_pod(mmap,
                   footer.index_block_offset
                     + PUBKEY_BYTES * footer.account_entry_count + 4 * index_offset,
                   4)
  IN IF IsOk(r) THEN Ok(U32FromBytes(r.value)) ELSE r

IndexBlock_get_account_address(mmap, footer, index_offset) ==
  get_pod(mmap, footer.index_block_offset + PUBKEY_BYTES * index_offset, PUBKEY_BYTES)

\* an owner index at or past the length of the mapping is a read past its
\* end whatever the block's start (and the product would not fit TLC's
\* integers)
OwnersBlock_get_owner_address(mmap, footer, owner_offset) ==
  IF owner_offset >= Len(mmap)
    THEN Err("Io")
    ELSE get_pod(mmap, footer.owners_block_offset + PUBKEY_BYTES * owner_offset, PUBKEY_BYTES)

(***************************************************************************)
(* HotStorageReader.  self is [mmap, footer]; offsets taken from the file  *)
(* are usize numerals.                                                     *)
(***************************************************************************)
\* as if a footer that cannot be parsed were replaced by the default one
NewFromPathIgnoresFooterError(file) ==
  IF ~file.exists
    THEN Err("Io")
    ELSE LET footer == TieredStorageFooter_new_from_mmap(file.bytes)
         IN Ok([footer |-> IF IsOk(footer) THEN footer.value ELSE TieredStorageFooter_default])

HotStorageReader_new_from_path(file) ==
  IF ~file.exists
    THEN Err("Io")
    ELSE LET footer == TieredStorageFooter_new_from_mmap(file.bytes)
         IN IF IsOk(footer) THEN Ok([footer |-> footer.value]) ELSE footer

HotStorageReader_footer(self) == self.footer

\* as if the number of accounts were taken from the number of owners
NumAccountsFromOwnerCount(self) == self.footer.owner_count

HotStorageReader_num_accounts(self) == self.footer.account_entry_count

BoundaryPanic == Panic("would exceed accounts blocks offset boundary")

\* as if the assert compared the offset alone with the boundary
MetaBoundIgnoresSize(self, account_offset) ==
  LET offset == HotAccountOffset_offset(account_offset)
  IN IF ~WLe(offset, Wide(self.footer.index_block_offset))
       THEN BoundaryPanic
     ELSE IF ~WLe(WAdd(offset, Wide(HotAccountMetaSize)), Wide(Len(self.mmap)))
       THEN Err("Io")
     ELSE Ok(HotAccountMeta_from_bytes(Slice(self.mmap, WInt(offset), HotAccountMetaSize)))

HotStorageReader_get_account_meta_from_offset(self, account_offset) ==
  LET offset == HotAccountOffset_offset(account_offset)
  IN IF ~WLe(WAdd(offset, Wide(HotAccountMetaSize)), Wide(self.footer.index_block_offset))
       THEN BoundaryPanic
       ELSE LET r == get_pod(self.mmap, WInt(offset), HotAccountMetaSize)
            IN IF IsOk(r) THEN Ok(HotAccountMeta_from_bytes(r.value)) ELSE r

HotStorageReader_get_account_offset(self, index_offset) ==
  IndexBlock_get_account_offset(self.mmap, self.footer, index_offset)

HotStorageReader_get_account_address(self, index) ==
  IndexBlock_get_account_address(self.mmap, self.footer, index)

HotStorageReader_get_owner_address(self, owner_offset) ==
  OwnersBlock_get_owner_address(self.mmap, self.footer, owner_offset)

NoMatch == Err("NoMatch")

UnableToLoad == Err("UnableToLoad")

\* iter().position(): the 0-based index of the first element equal to x
Position(seq, x) ==
  IF \E i \in 1 .. Len(seq) : seq[i] = x
    THEN Ok((CHOOSE i \in 1 .. Len(seq) : seq[i] = x /\ \A j \in 1 .. i - 1 : seq[j] # x) - 1)
    ELSE NoMatch

MatchesIgnoringLamports(self, account_offset, owners) ==
  LET meta == HotStorageReader_get_account_meta_from_offset(self, account_offset)
  IN IF meta.tag = "Panic" THEN meta
     ELSE IF ~IsOk(meta) THEN UnableToLoad
     ELSE LET account_owner ==
                HotStorageReader_get_owner_address(self, HotAccountMeta_owner_offset(meta.value))
          IN IF ~IsOk(account_owner) THEN UnableToLoad
             ELSE Position(owners, account_owner.value)

MatchesLastCandidate(self, account_offset, owners) ==
  LET meta == HotStorageReader_get_account_meta_from_offset(self, account_offset)
  IN IF meta.tag = "Panic" THEN meta
     ELSE IF ~IsOk(meta) THEN UnableToLoad
     ELSE IF HotAccountMeta_lamports(meta.value) = U64_ZERO THEN NoMatch
     ELSE LET account_owner ==
                HotStorageReader_get_owner_address(self, HotAccountMeta_owner_offset(meta.value))
          IN IF ~IsOk(account_owner) THEN UnableToLoad
             ELSE IF \E i \in 1 .. Len(owners) : owners[i] = account_owner.value
               THEN Ok((CHOOSE i \in 1 .. Len(owners) :
                          owners[i] = account_owner.value
                            /\ \A j \in i + 1 .. Len(owners) : owners[j] # account_owner.value) - 1)
               ELSE NoMatch

\* as if the owner were looked up before the balance is tested
MatchesOwnerLookupFirst(self, account_offset, owners) ==
  LET meta == HotStorageReader_get_account_meta_from_offset(self, account_offset)
  IN IF meta.tag = "Panic" THEN meta
     ELSE IF ~IsOk(meta) THEN UnableToLoad
     ELSE LET account_owner ==
                HotStorageReader_get_owner_address(self, HotAccountMeta_owner_offset(meta.value))
          IN IF ~IsOk(account_owner) THEN UnableToLoad
             ELSE IF HotAccountMeta_lamports(meta.value) = U64_ZERO THEN NoMatch
             ELSE Position(owners, account_owner.value)

HotStorageReader_account_matches_owners(self, account_offset, owners) ==
  LET meta == HotStorageReader_get_account_meta_from_offset(self, account_offset)
  IN IF meta.tag = "Panic" THEN meta
     ELSE IF ~IsOk(meta) THEN UnableToLoad
     ELSE IF HotAccountMeta_lamports(meta.value) = U64_ZERO THEN NoMatch
     ELSE LET account_owner ==
                HotStorageReader_get_owner_address(self, HotAccountMeta_owner_offset(meta.value))
          IN IF ~IsOk(account_owner) THEN UnableToLoad
             ELSE Position(owners, account_owner.value)

\* as if the end of every block, the last one included, were asked of the index
BlockSizeAlwaysAsksIndex(self, account_offset, index_offset) ==
  LET account_meta_offset == HotAccountOffset_offset(account_offset)
      next == HotStorageReader_get_account_offset(self, index_offset + 1)
  IN IF ~IsOk(next) THEN next
     ELSE Ok(WSatSub(WSatSub(HotAccountOffset_offset(next.value), account_meta_offset),
                     Wide(HotAccountMetaSize)))

\* the ordinals for which get_account_block_size calls get_account_offset
BlockSizeIndexReads(self, index_offset) ==
  IF index_offset + 1 = self.footer.account_entry_count
    THEN <<>>
    ELSE <<index_offset + 1>>

HotStorageReader_get_account_block_size(self, account_offset, index_offset) ==
  LET account_meta_offset == HotAccountOffset_offset(account_offset)
      next == HotStorageReader_get_account_offset(self, index_offset + 1)
  IN IF index_offset + 1 = self.footer.account_entry_count
       THEN Ok(WSatSub(WSatSub(Wide(self.footer.index_block_offset), account_meta_offset),
                       Wide(HotAccountMetaSize)))
     ELSE IF ~IsOk(next) THEN next
     ELSE Ok(WSatSub(WSatSub(HotAccountOffset_offset(next.value), account_meta_offset),
                     Wide(HotAccountMetaSize)))

HotStorageReader_get_account_block(self, account_offset, index_offset) ==
  LET size == HotStorageReader_get_account_block_size(self, account_offset, index_offset)
  IN IF ~IsOk(size) THEN size
     ELSE get_slice(self.mmap,
                    WAdd(HotAccountOffset_offset(account_offset), Wide(HotAccountMetaSize)),
                    size.value)

None == [some |-> FALSE]

Some(account, next) == [some |-> TRUE, account |-> account, next |-> next]

\* the body of get_account for an index below the number of accounts
HotStorageReader_load_account(self, index_offset) ==
  LET account_offset == HotStorageReader_get_account_offset(self, index_offset)
  IN IF ~IsOk(account_offset) THEN account_offset
     ELSE
  LET meta == HotStorageReader_get_account_meta_from_offset(self, account_offset.value)
  IN IF ~IsOk(meta) THEN meta
     ELSE
  LET address == HotStorageReader_get_account_address(self, index_offset)
  IN IF ~IsOk(address) THEN address
     ELSE
  LET owner == HotStorageReader_get_owner_address(self, HotAccountMeta_owner_offset(meta.value))
  IN IF ~IsOk(owner) THEN owner
     ELSE
  LET account_block ==
        HotStorageReader_get_account_block(self, account_offset.value, index_offset)
  IN IF ~IsOk(account_block) THEN account_block
     ELSE Ok(Some([meta |-> meta.value,
                   address |-> address.value,
                   owner |-> owner.value,
                   index |-> index_offset,
                   account_block |-> account_block.value],
                  index_offset + 1))

GetAccountBoundOffByOne(self, index_offset) ==
  IF index_offset > self.footer.account_entry_count
    THEN Ok(None)
    ELSE HotStorageReader_load_account(self, index_offset)

GetAccountSkipsOne(self, index_offset) ==
  IF index_offset >= self.footer.account_entry_count
    THEN Ok(None)
    ELSE LET r == HotStorageReader_load_account(self, index_offset)
         IN IF IsOk(r) THEN Ok([r.value EXCEPT !.next = index_offset + 2]) ELSE r

HotStorageReader_get_account(self, index_offset) ==
  IF index_offset >= self.footer.account_entry_count
    THEN Ok(None)
    ELSE HotStorageReader_load_account(self, index_offset)

\* the accessors of the account view that get_account returns
StoredAccountMeta_lamports(account) == HotAccountMeta_lamports(account.meta)

StoredAccountMeta_data(account) == HotAccountMeta_account_data(account.meta, account.account_block)

StoredAccountMeta_owner(account) == account.owner

StoredAccountMeta_pubkey(account) == account.address

(***************************************************************************)
(* HotStorageWriter::new.  TieredStorageFile::new_writable creates the     *)
(* file with create_new: it fails on a path that names a file, and leaves  *)
(* that file as it is.  A call gives its result and the file afterwards.   *)
(***************************************************************************)
TieredStorageFile_new_writable(file) ==
  IF file.exists
    THEN [res |-> Err("Io"), file |-> file]
    ELSE [res |-> Ok("storage"), file |-> [exists |-> TRUE, bytes |-> <<>>]]

\* as if the file were opened with create(true): an existing file is opened
WriterNewOpensExisting(file) ==
  [res |-> Ok("storage"), file |-> IF file.exists THEN file ELSE [exists |-> TRUE, bytes |-> <<>>]]

\* as if the file were opened with create(true).truncate(true)
WriterNewTruncates(file) ==
  IF file.exists
    THEN [res |-> Err("Io"), file |-> [exists |-> TRUE, bytes |-> <<>>]]
    ELSE [res |-> Ok("storage"), file |-> [exists |-> TRUE, bytes |-> <<>>]]

HotStorageWriter_new(file) == TieredStorageFile_new_writable(file)

(***************************************************************************)
(* The write pass (tests::test_hot_storage_get_account): create the file,  *)
(* write each account's metadata record, data and padding, then the index  *)
(* block, the owners block and the footer.  Then a reader is opened on the *)
(* file and looked up.                                                     *)
(***************************************************************************)
MaxAccounts == 2

NumOwners == 2

MaxDataLen == 9

MaxCandidates == 3

Owners == [k \in 1 .. NumOwners |-> Pubkey(k)]

\* an address that owns no account of the file
Decoys == {Pubkey(51)}

\* the address of the i-th account written (i from 0)
AccountAddress(i) == Pubkey(100 + i)

padding_bytes(data_len) ==
  (HOT_ACCOUNT_ALIGNMENT - (data_len % HOT_ACCOUNT_ALIGNMENT)) % HOT_ACCOUNT_ALIGNMENT

\* HotAccountMeta::new().with_lamports(..).with_owner_offset(..)
\*   .with_account_data_padding(..): a panic of a builder ends the chain
BuildMeta(lamports, owner_offset, padding) ==
  LET a == HotAccountMeta_with_lamports(HotAccountMeta_new, lamports)
      b == HotAccountMeta_with_owner_offset(a, owner_offset)
  IN IF ~IsOk(b) THEN b ELSE HotAccountMeta_with_account_data_padding(b.value, padding)

NoCall == [pc |-> "none"]

NotOpen == [pc |-> "none"]

NoScan == [pc |-> "idle"]

WriterIdle == [pc |-> "idle"]

MaxAttempts == 3

NumThreads == 2

Threads == 1 .. NumThreads

\* the state of a write pass that has just got its file
WriterStarted ==
  [pc |-> "accounts", current_offset |-> 0, entries |-> <<>>,
   footer |-> [TieredStorageFooter_default EXCEPT !.owner_count = NumOwners],
   corrupted |-> FALSE]

\* TieredStorageFile::new_writable: create_new, so only on a path with no file
NewWritable ==
  /\ wr.pc = "idle"
  /\ ~fs.exists
  /\ fs' = [exists |-> TRUE, bytes |-> <<>>]
  /\ wr' = WriterStarted
  /\ attempts' = Append(attempts, "Ok")
  /\ UNCHANGED <<settlement, codec, builder, th, rd, scan, out>>

\* HotStorageWriter::new on the path, at any time in the life of the file:
\* the caller that gets a writer starts a write pass with it
NewWriter ==
  /\ Len(attempts) < MaxAttempts
  /\ LET r == HotStorageWriter_new(fs)
     IN /\ attempts' = Append(attempts, r.res.tag)
        /\ fs' = r.file
        /\ wr' = IF IsOk(r.res) THEN WriterStarted ELSE wr
  /\ UNCHANGED <<settlement, codec, builder, th, rd, scan, out>>

\* as if current_offset advanced by the data and padding alone
WriteAccountForgetsMetaSize(lamports, owner_offset, data_len) ==
  /\ wr.pc = "accounts"
  /\ Len(wr.entries) < MaxAccounts
  /\ LET i == Len(wr.entries)
         data == Fill(i, data_len)
         padding == padding_bytes(data_len)
         meta == BuildMeta(lamports, owner_offset, padding)
         offset == HotAccountOffset_new(Wide(wr.current_offset))
     IN IF ~IsOk(meta) \/ ~IsOk(offset)
          THEN /\ wr' = [pc |-> "panicked", msg |-> "unwrap"]
               /\ fs' = fs
          ELSE /\ fs' = [fs EXCEPT !.bytes =
                           @ \o HotAccountMeta_bytes(meta.value) \o data \o Fill(0, padding)]
               /\ wr' = [wr EXCEPT
                           !.current_offset = @ + data_len + padding,
                           !.entries = Append(@, [address |-> AccountAddress(i),
                                                  offset |-> offset.value,
                                                  meta |-> meta.value,
                                                  data |-> data])]
  /\ UNCHANGED <<settlement, codec, builder, th, attempts, rd, scan, out>>

WriteAccount(lamports, owner_offset, data_len) ==
  /\ wr.pc = "accounts"
  /\ Len(wr.entries) < MaxAccounts
  /\ LET i == Len(wr.entries)
         data == Fill(i, data_len)
         padding == padding_bytes(data_len)
         meta == BuildMeta(lamports, owner_offset, padding)
         offset == HotAccountOffset_new(Wide(wr.current_offset))
     IN IF ~IsOk(meta)
          THEN /\ wr' = [pc |-> "panicked", msg |-> meta.msg]
               /\ fs' = fs
          ELSE /\ fs' = [fs EXCEPT !.bytes =
                           @ \o HotAccountMeta_bytes(meta.value) \o data \o Fill(0, padding)]
               /\ IF ~IsOk(offset)
                    THEN wr' = [pc |-> "panicked", msg |-> "unwrap"]
                    ELSE wr' = [wr EXCEPT
                           !.current_offset = @ + HotAccountMetaSize + data_len + padding,
                           !.entries = Append(@, [address |-> AccountAddress(i),
                                                  offset |-> offset.value,
                                                  meta |-> meta.value,
                                                  data |-> data])]
  /\ UNCHANGED <<settlement, codec, builder, th, attempts, rd, scan, out>>

WriteIndexBlock ==
  /\ wr.pc = "accounts"
  /\ LET block == IndexBlock_bytes(wr.entries)
     IN /\ fs' = [fs EXCEPT !.bytes = @ \o block]
        /\ wr' = [wr EXCEPT !.pc = "owners",
                            !.footer.account_entry_count = Len(wr.entries),
                            !.footer.index_block_offset = wr.current_offset,
                            !.current_offset = @ + Len(block)]
  /\ UNCHANGED <<settlement, codec, builder, th, attempts, rd, scan, out>>

WriteOwnersBlock ==
  /\ wr.pc = "owners"
  /\ LET block == OwnersBlock_bytes(Owners)
     IN /\ fs' = [fs EXCEPT !.bytes = @ \o block]
        /\ wr' = [wr EXCEPT !.pc = "footer",
                            !.footer.owners_block_offset = wr.current_offset,
                            !.current_offset = @ + Len(block)]
  /\ UNCHANGED <<settlement, codec, builder, th, attempts, rd, scan, out>>

WriteFooter ==
  /\ wr.pc = "footer"
  /\ fs' = [fs EXCEPT !.bytes = @ \o TieredStorageFooter_bytes(wr.footer)]
  /\ wr' = [wr EXCEPT !.pc = "done"]
  /\ UNCHANGED <<settlement, codec, builder, th, attempts, rd, scan, out>>

\* the finished file is damaged before it is read: the offset that the index
\* block holds for the k-th account is overwritten
CorruptIndexOffset(k, word) ==
  /\ wr.pc = "done"
  /\ ~wr.corrupted
  /\ rd.pc = "none"
  /\ k \in 1 .. Len(wr.entries)
  /\ word # wr.entries[k].offset
  /\ LET at == wr.footer.index_block_offset + PUBKEY_BYTES * Len(wr.entries) + 4 * (k - 1)
     IN fs' = [fs EXCEPT !.bytes =
                 [i \in 1 .. Len(@) |->
                    IF i \in at + 1 .. at + 4 THEN U32Bytes(word)[i - at] ELSE @[i]]]
  /\ wr' = [wr EXCEPT !.corrupted = TRUE]
  /\ UNCHANGED <<settlement, codec, builder, th, attempts, rd, scan, out>>

OpenReader ==
  /\ rd.pc # "open"
  /\ LET r == HotStorageReader_new_from_path(fs)
     IN rd' = IF IsOk(r) THEN [pc |-> "open", footer |-> r.value.footer]
                         ELSE [pc |-> "failed", err |-> r.kind]
  /\ UNCHANGED <<settlement, codec, builder, th, attempts, fs, wr, scan, out>>

\* the reader goes out of scope, and with it what its callers held
CloseReader ==
  /\ rd.pc = "open"
  /\ rd' = NotOpen
  /\ scan' = NoScan
  /\ out' = NoCall
  /\ UNCHANGED <<settlement, codec, builder, th, attempts, fs, wr>>

Reader == [mmap |-> fs.bytes, footer |-> rd.footer]

\* a caller starts (or starts again) enumerating from an ordinal
ScanStart(ordinal) ==
  /\ rd.pc = "open"
  /\ scan.pc # "running"
  /\ scan' = [pc |-> "running", start |-> ordinal, cursor |-> ordinal, visited |-> <<>>]
  /\ out' = NoCall
  /\ UNCHANGED <<settlement, codec, builder, th, attempts, fs, wr, rd>>

\* one call of get_account at the cursor; the caller goes on from `next`
ScanStep ==
  /\ rd.pc = "open"
  /\ scan.pc = "running"
  /\ LET r == HotStorageReader_get_account(Reader, scan.cursor)
     IN /\ out' = [pc |-> "get_account", index |-> scan.cursor, res |-> r]
        /\ scan' = IF ~IsOk(r) THEN [scan EXCEPT !.pc = "failed"]
                   ELSE IF ~r.value.some THEN [scan EXCEPT !.pc = "done"]
                   ELSE [scan EXCEPT !.cursor = r.value.next,
                                     !.visited = Append(@, r.value.account.index)]
  /\ UNCHANGED <<settlement, codec, builder, th, attempts, fs, wr, rd>>

\* account_matches_owners at the offset recorded for the k-th account written
MatchOwners(k, candidates) ==
  /\ rd.pc = "open"
  /\ wr.pc = "done"
  /\ out.pc = "none"
  /\ k \in 1 .. Len(wr.entries)
  /\ out' = [pc |-> "account_matches_owners", entry |-> k, owners |-> candidates,
             res |-> HotStorageReader_account_matches_owners(
                       Reader, wr.entries[k].offset, candidates)]
  /\ UNCHANGED <<settlement, codec, builder, th, attempts, fs, wr, rd, scan>>

\* as if the reader kept a cursor of its own and used up an account per lookup
BorrowAdvancesCursor(self) ==
  [self EXCEPT !.footer.account_entry_count = IF @ > 0 THEN @ - 1 ELSE 0]

\* a lookup takes &self, and neither the mapping nor the footer has a cell
\* that can change behind it: the reader it leaves is the reader it got
SharedBorrow(self) == self

\* the public lookups of the reader
Lookup(self, call) ==
  CASE call.op = "get_account" -> HotStorageReader_get_account(self, call.index)
    [] call.op = "account_matches_owners" ->
         HotStorageReader_account_matches_owners(self, call.offset, call.owners)
    [] call.op = "num_accounts" -> Ok(HotStorageReader_num_accounts(self))
    [] call.op = "footer" -> Ok(self.footer)

\* a thread that shares the reader enters a lookup
ThreadCall(t, call) ==
  /\ rd.pc = "open"
  /\ th[t].pc = "none"
  /\ th' = [th EXCEPT ![t] = [pc |-> "called", call |-> call]]
  /\ UNCHANGED <<settlement, codec, builder, attempts, fs, wr, rd, scan, out>>

\* the lookup reads the mapping and the footer and returns
ThreadReturn(t) ==
  /\ rd.pc = "open"
  /\ th[t].pc = "called"
  /\ th' = [th EXCEPT ![t] = [pc |-> "returned", call |-> th[t].call,
                               res |-> Lookup(Reader, th[t].call)]]
  /\ rd' = SharedBorrow(rd)
  /\ UNCHANGED <<settlement, codec, builder, attempts, fs, wr, scan, out>>

\* the thread drops the result and is free to look up again
ThreadDone(t) ==
  /\ th[t].pc = "returned"
  /\ th' = [th EXCEPT ![t] = NoCall]
  /\ UNCHANGED <<settlement, codec, builder, attempts, fs, wr, rd, scan, out>>

\* a file that holds a footer and nothing else, its index_block_offset set
\* past the bytes that exist (tests::test_get_acount_meta_from_offset_out_of_bounds)
FooterOnlyIndexBlockOffset == 160

WriteFooterOnly ==
  /\ wr.pc = "accounts"
  /\ Len(wr.entries) = 0
  /\ LET footer == [TieredStorageFooter_default EXCEPT
                      !.index_block_offset = FooterOnlyIndexBlockOffset]
     IN /\ fs' = [fs EXCEPT !.bytes = @ \o TieredStorageFooter_bytes(footer)]
        /\ wr' = [wr EXCEPT !.pc = "done", !.footer = footer]
  /\ UNCHANGED <<settlement, codec, builder, th, attempts, rd, scan, out>>

\* the footer of tests::test_hot_storage_footer, written to a file of its own
TestFooter ==
  [account_entry_count |-> 300, owner_count |-> 250,
   index_block_offset |-> 1069600, owners_block_offset |-> 1081200]

WriteTestFooter ==
  /\ wr.pc = "accounts"
  /\ Len(wr.entries) = 0
  /\ fs' = [fs EXCEPT !.bytes = @ \o TieredStorageFooter_bytes(TestFooter)]
  /\ wr' = [wr EXCEPT !.pc = "done", !.footer = TestFooter]
  /\ UNCHANGED <<settlement, codec, builder, th, attempts, rd, scan, out>>

\* get_account_block_size for an offset and an ordinal
BlockSize(word, ordinal) ==
  /\ rd.pc = "open"
  /\ out.pc = "none"
  /\ out' = [pc |-> "get_account_block_size", offset |-> word, index |-> ordinal,
             reads |-> BlockSizeIndexReads(Reader, ordinal),
             res |-> HotStorageReader_get_account_block_size(Reader, word, ordinal)]
  /\ UNCHANGED <<settlement, codec, builder, th, attempts, fs, wr, rd, scan>>

\* get_account_meta_from_offset at an offset the caller chose
MetaAt(word) ==
  /\ rd.pc = "open"
  /\ out.pc = "none"
  /\ out' = [pc |-> "get_account_meta_from_offset", offset |-> word,
             res |-> HotStorageReader_get_account_meta_from_offset(Reader, word)]
  /\ UNCHANGED <<settlement, codec, builder, th, attempts, fs, wr, rd, scan>>

\* account_matches_owners at an offset the caller chose
MatchOwnersAt(word, candidates) ==
  /\ rd.pc = "open"
  /\ out.pc = "none"
  /\ out' = [pc |-> "account_matches_owners_at", offset |-> word, owners |-> candidates,
             res |-> HotStorageReader_account_matches_owners(Reader, word, candidates)]
  /\ UNCHANGED <<settlement, codec, builder, th, attempts, fs, wr, rd, scan>>

(***************************************************************************)
(* u64 amounts of the fee-settlement program, as four 16-bit limbs, the    *)
(* most significant first.                                                 *)
(***************************************************************************)
LIMB16 == Pow2(16)

U64Of(n) == <<0, 0, n \div LIMB16, n % LIMB16>>

U64Max == <<LIMB16 - 1, LIMB16 - 1, LIMB16 - 1, LIMB16 - 1>>

U64Lt(a, b) == \E i \in 1 .. 4 : a[i] < b[i] /\ \A j \in 1 .. i - 1 : a[j] = b[j]

\* a + b in 64 bits, and whether the sum did not fit
U64Sum(a, b) ==
  LET s4 == a[4] + b[4]
      s3 == a[3] + b[3] + (s4 \div LIMB16)
      s2 == a[2] + b[2] + (s3 \div LIMB16)
      s1 == a[1] + b[1] + (s2 \div LIMB16)
  IN [value |-> <<s1 % LIMB16, s2 % LIMB16, s3 % LIMB16, s4 % LIMB16>>,
      overflow |-> s1 >= LIMB16]

\* a - b for b <= a
U64Sub(a, b) ==
  LET b4 == IF a[4] < b[4] THEN 1 ELSE 0
      b3 == IF a[3] < b[3] + b4 THEN 1 ELSE 0
      b2 == IF a[2] < b[2] + b3 THEN 1 ELSE 0
  IN <<a[1] - b[1] - b2,
       (a[2] + LIMB16 - b[2] - b3) % LIMB16,
       (a[3] + LIMB16 - b[3] - b4) % LIMB16,
       (a[4] + LIMB16 - b[4]) % LIMB16>>

U64Half(a) ==
  <<a[1] \div 2,
    (a[2] \div 2) + (a[1] % 2) * (LIMB16 \div 2),
    (a[3] \div 2) + (a[2] % 2) * (LIMB16 \div 2),
    (a[4] \div 2) + (a[3] % 2) * (LIMB16 \div 2)>>

(***************************************************************************)
(* The fee-settlement program.  The data account holds a SettlementState;  *)
(* every instruction reads the list of settlement accounts into a HashMap  *)
(* keyed by owner, and an instruction that succeeds writes the values of   *)
(* the map back, in the order the HashMap gives them.  An addition that    *)
(* does not fit a u64 panics in a build with overflow checks and wraps in  *)
(* a build without.                                                        *)
(***************************************************************************)
Uninitialized == [tag |-> "Uninitialized"]

FeeBillSettled(accounts) == [tag |-> "FeeBillSettled", accounts |-> accounts]

SettlementAccountTypes == {"BurnAccount", "HSSNAccount", "SonicGridAccount", "GridAccount"}

SettlementAccount(owner, account_type) ==
  [owner |-> owner, account_type |-> account_type,
   amount |-> U64Of(0), withdrawable |-> U64Of(0), withdrawed |-> U64Of(0)]

\* accounts2.iter().for_each(|account| accouts.insert(account.owner, account.clone()))
MapOf(accounts) ==
  [o \in {accounts[i].owner : i \in 1 .. Len(accounts)} |->
     accounts[CHOOSE i \in 1 .. Len(accounts) :
                /\ accounts[i].owner = o
                /\ \A j \in i + 1 .. Len(accounts) : accounts[j].owner # o]]

\* accouts.values().cloned().collect(): the values in any order
ValuesInAnyOrder(accouts) ==
  LET n == Cardinality(DOMAIN accouts)
      orders == {p \in [1 .. n -> DOMAIN accouts] : \A i, j \in 1 .. n : p[i] = p[j] => i = j}
  IN {[i \in 1 .. n |-> accouts[p[i]]] : p \in orders}

NoKey == <<>>

\* the owner of the last account of a type in the list, or none
LastOfType(accounts, account_type) ==
  IF \E i \in 1 .. Len(accounts) : accounts[i].account_type = account_type
    THEN accounts[CHOOSE i \in 1 .. Len(accounts) :
                    /\ accounts[i].account_type = account_type
                    /\ \A j \in i + 1 .. Len(accounts) :
                         accounts[j].account_type # account_type].owner
    ELSE NoKey

OkUnit == Ok(<<>>)

Processor_initialize_account(state, has_data_account, owner, account_type) ==
  IF ~has_data_account THEN [res |-> Err("NotEnoughAccountKeys")]
  ELSE LET accouts == IF state.tag = "FeeBillSettled" THEN MapOf(state.accounts) ELSE <<>>
       IN IF owner \in DOMAIN accouts THEN [res |-> Err("InvalidAccountData")]
          ELSE [res |-> OkUnit, overflowed |-> FALSE,
                accouts |-> [o \in DOMAIN accouts \cup {owner} |->
                               IF o = owner THEN SettlementAccount(owner, account_type)
                               ELSE accouts[o]]]

\* account.amount += amount; account.withdrawable += amount, for the account
\* of a key, when there is one
Credit(s, key, amount) ==
  IF key \notin DOMAIN s.accouts THEN s
  ELSE LET account == s.accouts[key]
           a == U64Sum(account.amount, amount)
           w == U64Sum(account.withdrawable, amount)
       IN [accouts |-> [s.accouts EXCEPT ![key] =
                          [account EXCEPT !.amount = a.value, !.withdrawable = w.value]],
           overflowed |-> s.overflowed \/ a.overflow \/ w.overflow]

RECURSIVE SettleBills(_, _, _, _, _)
SettleBills(s, bills, burn_account_id, hssn_account_id, sonic_account_id) ==
  IF bills = <<>> THEN s
  ELSE LET bill == Head(bills)
           burned == Credit(s, burn_account_id, bill.amount)
           hssn == Credit(burned, hssn_account_id, U64Half(U64Half(bill.amount)))
           sonic == Credit(hssn, sonic_account_id, U64Half(U64Half(bill.amount)))
           grid == Credit(sonic, bill.key, U64Half(bill.amount))
       IN SettleBills(grid, Tail(bills), burn_account_id, hssn_account_id, sonic_account_id)

Processor_settle_fee_bill(state, has_data_account, bills, overflow_checks) ==
  IF ~has_data_account THEN [res |-> Err("NotEnoughAccountKeys")]
  ELSE IF state.tag # "FeeBillSettled" THEN [res |-> Err("InvalidAccountData")]
  ELSE LET s == SettleBills([accouts |-> MapOf(state.accounts), overflowed |-> FALSE],
                            bills,
                            LastOfType(state.accounts, "BurnAccount"),
                            LastOfType(state.accounts, "HSSNAccount"),
                            LastOfType(state.accounts, "SonicGridAccount"))
       IN IF s.overflowed /\ overflow_checks
            THEN [res |-> Panic("attempt to add with overflow")]
            ELSE [res |-> OkUnit, overflowed |-> s.overflowed, accouts |-> s.accouts]

\* as if a withdrawal left the withdrawable amount as it was
WithdrawKeepsWithdrawable(state, has_data_account, address, amount, overflow_checks) ==
  IF ~has_data_account THEN [res |-> Err("NotEnoughAccountKeys")]
  ELSE IF state.tag # "FeeBillSettled" THEN [res |-> Err("InvalidAccountData")]
  ELSE LET accouts == MapOf(state.accounts)
       IN IF address \notin DOMAIN accouts THEN [res |-> Err("InvalidAccountData")]
          ELSE LET account == accouts[address]
                   withdrawed == U64Sum(account.withdrawed, amount)
               IN IF U64Lt(account.withdrawable, amount)
                    THEN [res |-> Err("InvalidInstructionData")]
                  ELSE IF withdrawed.overflow /\ overflow_checks
                    THEN [res |-> Panic("attempt to add with overflow")]
                  ELSE [res |-> OkUnit, overflowed |-> withdrawed.overflow,
                        accouts |-> [accouts EXCEPT ![address] =
                                       [account EXCEPT !.withdrawed = withdrawed.value]]]

Processor_withdraw_fee_bill(state, has_data_account, address, amount, overflow_checks) ==
  IF ~has_data_account THEN [res |-> Err("NotEnoughAccountKeys")]
  ELSE IF state.tag # "FeeBillSettled" THEN [res |-> Err("InvalidAccountData")]
  ELSE LET accouts == MapOf(state.accounts)
       IN IF address \notin DOMAIN accouts THEN [res |-> Err("InvalidAccountData")]
          ELSE LET account == accouts[address]
                   withdrawed == U64Sum(account.withdrawed, amount)
               IN IF U64Lt(account.withdrawable, amount)
                    THEN [res |-> Err("InvalidInstructionData")]
                  ELSE IF withdrawed.overflow /\ overflow_checks
                    THEN [res |-> Panic("attempt to add with overflow")]
                  ELSE [res |-> OkUnit, overflowed |-> withdrawed.overflow,
                        accouts |-> [accouts EXCEPT ![address] =
                                       [account EXCEPT
                                          !.withdrawed = withdrawed.value,
                                          !.withdrawable = U64Sub(@, amount)]]]

MaxInstructions == 5

\* the data account after an instruction: set_data_from_slice on success,
\* the data as they were otherwise
Executed(call, r) ==
  /\ settlement.count < MaxInstructions
  /\ IF r.res = OkUnit
       THEN \E accounts \in ValuesInAnyOrder(r.accouts) :
              settlement' = [data |-> FeeBillSettled(accounts),
                             count |-> settlement.count + 1,
                             overflowed |-> settlement.overflowed \/ r.overflowed,
                             before |-> settlement.data,
                             call |-> call,
                             res |-> r.res]
       ELSE settlement' = [settlement EXCEPT !.count = @ + 1,
                                             !.before = settlement.data,
                                             !.call = call,
                                             !.res = r.res]
  /\ UNCHANGED <<codec, builder, fs, wr, rd, scan, out, th, attempts>>

InitializeAccount(has_data_account, owner, account_type) ==
  Executed([op |-> "InitializeAccount", has_data_account |-> has_data_account,
            owner |-> owner, account_type |-> account_type],
           Processor_initialize_account(settlement.data, has_data_account, owner, account_type))

SettleFeeBill(has_data_account, bills, overflow_checks) ==
  Executed([op |-> "SettleFeeBill", has_data_account |-> has_data_account, bills |-> bills],
           Processor_settle_fee_bill(settlement.data, has_data_account, bills, overflow_checks))

WithdrawFeeBill(has_data_account, address, amount, overflow_checks) ==
  Executed([op |-> "WithdrawFeeBill", has_data_account |-> has_data_account,
            address |-> address, amount |-> amount],
           Processor_withdraw_fee_bill(settlement.data, has_data_account, address, amount,
                                       overflow_checks))

Init ==
  /\ codec = NoCall
  /\ builder = NoCall
  /\ fs = [exists |-> FALSE, bytes |-> <<>>]
  /\ wr = WriterIdle
  /\ rd = NotOpen
  /\ scan = NoScan
  /\ out = NoCall
  /\ th = [t \in Threads |-> NoCall]
  /\ attempts = <<>>
  /\ settlement = [data |-> Uninitialized, count |-> 0, overflowed |-> FALSE,
                   before |-> Uninitialized, call |-> [op |-> "none"], res |-> OkUnit]

(***************************************************************************)
(* Codec calls: HotAccountOffset::new on an input, then offset() on the    *)
(* encoded value it returned.                                              *)
(***************************************************************************)
OffsetSpan == 40

\* offsets around 2^20, 2^31 and 2^32, where the limbs and the u32 word carry
MidOffsets ==
  {WAdd(<<h, LIMB - 16>>, Wide(k)) : h \in {0, 2047, 4095, 16383}, k \in 0 .. 24}

CodecInputs ==
  {Wide(k) : k \in 0 .. OffsetSpan}
    \cup {WSub(MAX_HOT_ACCOUNT_OFFSET, Wide(k)) : k \in 0 .. OffsetSpan}
    \cup {WAdd(MAX_HOT_ACCOUNT_OFFSET, Wide(k)) : k \in 1 .. OffsetSpan}
    \cup MidOffsets

CodecNew(o) ==
  /\ codec' = [pc |-> "new", input |-> o, res |-> HotAccountOffset_new(o)]
  /\ UNCHANGED <<builder, storeVars>>

CodecOffset ==
  /\ codec.pc = "new"
  /\ IsOk(codec.res)
  /\ codec' = [pc |-> "offset", input |-> codec.input, res |-> codec.res,
               decoded |-> HotAccountOffset_offset(codec.res.value)]
  /\ UNCHANGED <<builder, storeVars>>

NextCodec ==
  \/ \E o \in CodecInputs : CodecNew(o)
  \/ CodecOffset

SpecCodec == Init /\ [][NextCodec]_vars

Aligned(o) == WMod8(o) = 0

InRange(o) == WLe(o, MAX_HOT_ACCOUNT_OFFSET)

\* C4: for every offset that is a multiple of 8 and at most u32::MAX * 8,
\* HotAccountOffset::new succeeds and offset() of the encoded value is
\* exactly the offset given.
C4_RoundTrip ==
  (codec.pc # "none" /\ Aligned(codec.input) /\ InRange(codec.input))
    => /\ IsOk(codec.res)
       /\ codec.pc = "offset" => codec.decoded = codec.input

C4_Witness ==
  /\ codec.pc = "offset"
  /\ codec.input = MAX_HOT_ACCOUNT_OFFSET
  /\ codec.decoded = codec.input

\* C5: HotAccountOffset::new fails exactly for the offsets that are not a
\* multiple of 8 or are greater than u32::MAX * 8 (0 and u32::MAX * 8
\* succeed), and an encoded value always decodes to the offset it was made
\* from: nothing out of range or misaligned is truncated into a valid value.
C5_Rejects ==
  codec.pc # "none"
    => /\ IsOk(codec.res) <=> (Aligned(codec.input) /\ InRange(codec.input))
       /\ IsOk(codec.res) => HotAccountOffset_offset(codec.res.value) = codec.input

C5_Witness ==
  /\ codec.pc = "new"
  /\ codec.input = WAdd(MAX_HOT_ACCOUNT_OFFSET, Wide(HOT_ACCOUNT_ALIGNMENT))
  /\ ~IsOk(codec.res)

\* C6 as stated: an offset above the maximum yields OffsetOutOfBounds(offset,
\* u32::MAX * 8) and a misaligned offset yields OffsetAlignmentError(offset, 8).
C6_AsStated ==
  codec.pc # "none"
    => /\ ~InRange(codec.input)
            => codec.res = OffsetOutOfBounds(codec.input, MAX_HOT_ACCOUNT_OFFSET)
       /\ ~Aligned(codec.input)
            => codec.res = OffsetAlignmentError(codec.input, Wide(HOT_ACCOUNT_ALIGNMENT))

\* C6, amended: an offset above the maximum yields OffsetOutOfBounds(offset,
\* u32::MAX * 8), and a misaligned offset that is not above the maximum yields
\* OffsetAlignmentError(offset, 8).
C6_Diagnostics ==
  codec.pc # "none"
    => /\ ~InRange(codec.input)
            => codec.res = OffsetOutOfBounds(codec.input, MAX_HOT_ACCOUNT_OFFSET)
       /\ (InRange(codec.input) /\ ~Aligned(codec.input))
            => codec.res = OffsetAlignmentError(codec.input, Wide(HOT_ACCOUNT_ALIGNMENT))

C6_Witness ==
  /\ codec.pc = "new"
  /\ codec.input = Wide(HOT_ACCOUNT_ALIGNMENT - 1)
  /\ codec.res.tag = "OffsetAlignmentError"

\* C30: HotAccountOffset::new checks the range before the alignment: an
\* offset that is both above u32::MAX * 8 and not a multiple of 8 is reported
\* as OffsetOutOfBounds, and OffsetAlignmentError is returned only for
\* offsets within range.
C30_RangeBeforeAlignment ==
  codec.pc # "none"
    => /\ (~InRange(codec.input) /\ ~Aligned(codec.input))
            => codec.res.tag = "OffsetOutOfBounds"
       /\ codec.res.tag = "OffsetAlignmentError" => InRange(codec.input)

\* the first misaligned offset above the maximum
C30_Witness ==
  /\ codec.pc = "new"
  /\ codec.input = WAdd(MAX_HOT_ACCOUNT_OFFSET, Wide(1))
  /\ codec.res = OffsetOutOfBounds(codec.input, MAX_HOT_ACCOUNT_OFFSET)

(***************************************************************************)
(* Building a metadata record: HotAccountMeta::new() and then any chain of *)
(* builder calls.  A call that panics ends the chain; no record is left.   *)
(***************************************************************************)
MaxPaddingArg == 9

\* a u8: small values and u8::MAX
PaddingArgs == (0 .. MaxPaddingArg) \cup {255}

\* 0x1fef_1234 and 0x1fff_ef98 are the tests' values
OwnerOffsetArgs ==
  {0, 1, 9, 535761460, 536866712,
   MAX_HOT_OWNER_OFFSET, MAX_HOT_OWNER_OFFSET + 1, MAX_HOT_OWNER_OFFSET + 2, 2147483647}

\* 0, 1, 2314232137 and u64::MAX - 1
LamportsArgs ==
  {U64_ZERO,
   <<1, 0, 0, 0, 0, 0, 0, 0>>,
   <<73, 97, 240, 137, 0, 0, 0, 0>>,
   <<254, 255, 255, 255, 255, 255, 255, 255>>}

FlagsArgs == {AccountMetaFlags_from(r, h) : r \in BOOLEAN, h \in BOOLEAN}

DataSizeArgs == {0, 83, 4095}

Built(meta, op, arg) == [pc |-> "built", meta |-> meta, last |-> [op |-> op, arg |-> arg]]

Panicked(msg, op, arg) == [pc |-> "panicked", msg |-> msg, last |-> [op |-> op, arg |-> arg]]

Chain(r, op, arg) == IF IsOk(r) THEN Built(r.value, op, arg) ELSE Panicked(r.msg, op, arg)

BuilderNew ==
  /\ builder' = Built(HotAccountMeta_new, "new", 0)
  /\ UNCHANGED <<codec, storeVars>>

BuilderWithLamports(lamports) ==
  /\ builder.pc = "built"
  /\ builder' = Built(HotAccountMeta_with_lamports(builder.meta, lamports),
                      "with_lamports", lamports)
  /\ UNCHANGED <<codec, storeVars>>

BuilderWithPadding(padding) ==
  /\ builder.pc = "built"
  /\ builder' = Chain(HotAccountMeta_with_account_data_padding(builder.meta, padding),
                      "with_account_data_padding", padding)
  /\ UNCHANGED <<codec, storeVars>>

BuilderWithOwnerOffset(owner_offset) ==
  /\ builder.pc = "built"
  /\ builder' = Chain(HotAccountMeta_with_owner_offset(builder.meta, owner_offset),
                      "with_owner_offset", owner_offset)
  /\ UNCHANGED <<codec, storeVars>>

BuilderWithDataSize(size) ==
  /\ builder.pc = "built"
  /\ builder' = Built(HotAccountMeta_with_account_data_size(builder.meta, size),
                      "with_account_data_size", size)
  /\ UNCHANGED <<codec, storeVars>>

BuilderWithFlags(flags) ==
  /\ builder.pc = "built"
  /\ builder' = Built(HotAccountMeta_with_flags(builder.meta, flags), "with_flags", flags)
  /\ UNCHANGED <<codec, storeVars>>

NextMeta ==
  \/ BuilderNew
  \/ \E l \in LamportsArgs : BuilderWithLamports(l)
  \/ \E p \in PaddingArgs : BuilderWithPadding(p)
  \/ \E w \in OwnerOffsetArgs : BuilderWithOwnerOffset(w)
  \/ \E s \in DataSizeArgs : BuilderWithDataSize(s)
  \/ \E f \in FlagsArgs : BuilderWithFlags(f)

SpecMeta == Init /\ [][NextMeta]_vars

\* C7: setting the padding (0..7) leaves the owner index as it was and reads
\* back as set, setting the owner index (0..2^29-1) leaves the padding as it
\* was and reads back as set, and neither changes the balance or the flags:
\* after both are set, in either order, both read back exactly.
C7_PackedRoundTrip ==
  [][(builder.pc = "built" /\ builder'.pc = "built")
       => LET m == builder.meta
              n == builder'.meta
              call == builder'.last
          IN /\ call.op = "with_account_data_padding"
                  => /\ HotAccountMeta_account_data_padding(n) = call.arg
                     /\ HotAccountMeta_owner_offset(n) = HotAccountMeta_owner_offset(m)
                     /\ HotAccountMeta_lamports(n) = HotAccountMeta_lamports(m)
                     /\ HotAccountMeta_flags(n) = HotAccountMeta_flags(m)
             /\ call.op = "with_owner_offset"
                  => /\ HotAccountMeta_owner_offset(n) = call.arg
                     /\ HotAccountMeta_account_data_padding(n)
                          = HotAccountMeta_account_data_padding(m)
                     /\ HotAccountMeta_lamports(n) = HotAccountMeta_lamports(m)
                     /\ HotAccountMeta_flags(n) = HotAccountMeta_flags(m)]_vars

C7_Witness ==
  /\ builder.pc = "built"
  /\ builder.last.op = "with_account_data_padding"
  /\ HotAccountMeta_account_data_padding(builder.meta) = MAX_HOT_PADDING
  /\ HotAccountMeta_owner_offset(builder.meta) = MAX_HOT_OWNER_OFFSET
  /\ HotAccountMeta_lamports(builder.meta) # U64_ZERO
  /\ HotAccountMeta_flags(builder.meta) # AccountMetaFlags_new

\* C8: a builder call with a padding above 7 or an owner index above 2^29-1
\* panics with the builder's own message and leaves no record; every record
\* a builder call returns holds exactly the padding or owner index given.
C8_BuilderPanics ==
  /\ (builder.pc # "none" /\ builder.last.op = "with_account_data_padding")
       => IF builder.last.arg > MAX_HOT_PADDING
            THEN builder.pc = "panicked" /\ builder.msg = "padding exceeds MAX_HOT_PADDING"
            ELSE /\ builder.pc = "built"
                 /\ HotAccountMeta_account_data_padding(builder.meta) = builder.last.arg
  /\ (builder.pc # "none" /\ builder.last.op = "with_owner_offset")
       => IF builder.last.arg > MAX_HOT_OWNER_OFFSET
            THEN /\ builder.pc = "panicked"
                 /\ builder.msg = "owner_offset exceeds MAX_HOT_OWNER_OFFSET"
            ELSE /\ builder.pc = "built"
                 /\ HotAccountMeta_owner_offset(builder.meta) = builder.last.arg

C8_Witness ==
  /\ builder.pc = "panicked"
  /\ builder.last = [op |-> "with_account_data_padding", arg |-> MAX_HOT_PADDING + 1]

\* blocks on which a record's account_data_size is compared
ProbeBlocks == {Fill(11, n) : n \in {0, MAX_HOT_PADDING, 83}}

\* C23: with_account_data_size(s) is a no-op: the record it returns equals
\* the record it was called on in balance, padding, owner index and flags,
\* and account_data_size of a block is the same before and after the call.
C23_DataSizeIsNoOp ==
  [][(builder.pc = "built" /\ builder'.pc = "built"
        /\ builder'.last.op = "with_account_data_size")
       => LET m == builder.meta
              n == builder'.meta
          IN /\ n = m
             /\ HotAccountMeta_lamports(n) = HotAccountMeta_lamports(m)
             /\ HotAccountMeta_account_data_padding(n) = HotAccountMeta_account_data_padding(m)
             /\ HotAccountMeta_owner_offset(n) = HotAccountMeta_owner_offset(m)
             /\ HotAccountMeta_flags(n) = HotAccountMeta_flags(m)
             /\ \A b \in ProbeBlocks :
                  HotAccountMeta_account_data_size(n, b)
                    = HotAccountMeta_account_data_size(m, b)]_vars

\* with_account_data_size(4095) on a record whose fields are all set
C23_Witness ==
  /\ builder.pc = "built"
  /\ builder.last = [op |-> "with_account_data_size", arg |-> 4095]
  /\ HotAccountMeta_account_data_padding(builder.meta) = 5
  /\ HotAccountMeta_owner_offset(builder.meta) = 535761460
  /\ HotAccountMeta_lamports(builder.meta) = <<73, 97, 240, 137, 0, 0, 0, 0>>
  /\ HotAccountMeta_flags(builder.meta) = AccountMetaFlags_from(TRUE, TRUE)

(***************************************************************************)
(* The storage pass: write a file, open it, enumerate it.                 *)
(***************************************************************************)
\* what the accounts of a scanned file are drawn from: a zero balance with the
\* first owner or 2314232137 lamports with the last, and every data length
ScanAccounts ==
  {[lamports |-> U64_ZERO, owner_offset |-> 0],
   [lamports |-> <<73, 97, 240, 137, 0, 0, 0, 0>>, owner_offset |-> NumOwners - 1]}

DataLens == 0 .. MaxDataLen

Next ==
  \/ NewWritable
  \/ \E a \in ScanAccounts, n \in DataLens : WriteAccount(a.lamports, a.owner_offset, n)
  \/ WriteIndexBlock
  \/ WriteOwnersBlock
  \/ WriteFooter
  \/ OpenReader
  \/ CloseReader
  \/ \E i \in 0 .. MaxAccounts + 1 : ScanStart(i)
  \/ ScanStep

Spec == Init /\ [][Next]_vars

(***************************************************************************)
(* The same pass over a file whose index block may have been damaged after *)
(* it was written: an offset that points inside the accounts, at or past   *)
(* the index block, or as far as a u32 reaches.                            *)
(***************************************************************************)
CorruptWords == {Wide(0), Wide(1), Wide(2), Wide(4), Wide(8), U32_MAX}

CorruptDataLens == {0, HOT_ACCOUNT_ALIGNMENT + 1}

NextCorrupt ==
  \/ NewWritable
  \/ \E a \in ScanAccounts, n \in CorruptDataLens :
       WriteAccount(a.lamports, a.owner_offset, n)
  \/ WriteIndexBlock
  \/ WriteOwnersBlock
  \/ WriteFooter
  \/ \E k \in 1 .. MaxAccounts, w \in CorruptWords : CorruptIndexOffset(k, w)
  \/ OpenReader
  \/ CloseReader
  \/ \E i \in 0 .. MaxAccounts + 1 : ScanStart(i)
  \/ ScanStep
  \/ \E w \in CorruptWords, i \in 0 .. MaxAccounts : BlockSize(w, i)

SpecCorrupt == Init /\ [][NextCorrupt]_vars

\* the number of accounts the finished write pass wrote
Written == Len(wr.entries)

\* C1: on a file made of N accounts written one after the other (metadata
\* record, data, padding to 8 bytes), the index block, the owners block and
\* the footer, get_account(i) for i < N returns the i-th data written byte
\* for byte, the balance written, the owner address that the i-th record's
\* owner index points to and the i-th address written.
C1_ReadsBackWhatWasWritten ==
  (out.pc = "get_account" /\ out.index < Written)
    => /\ IsOk(out.res)
       /\ out.res.value.some
       /\ LET account == out.res.value.account
              entry == wr.entries[out.index + 1]
          IN /\ StoredAccountMeta_data(account) = entry.data
             /\ StoredAccountMeta_lamports(account) = HotAccountMeta_lamports(entry.meta)
             /\ StoredAccountMeta_owner(account)
                  = Owners[HotAccountMeta_owner_offset(entry.meta) + 1]
             /\ StoredAccountMeta_pubkey(account) = entry.address

C1_Witness ==
  /\ out.pc = "get_account"
  /\ out.index = 1
  /\ Written = MaxAccounts
  /\ IsOk(out.res)
  /\ out.res.value.some
  /\ Len(StoredAccountMeta_data(out.res.value.account)) = HOT_ACCOUNT_ALIGNMENT + 1
  /\ Len(wr.entries[1].data) = 3
  /\ StoredAccountMeta_lamports(out.res.value.account) # U64_ZERO

\* C2: get_account(ordinal) returns Ok(None) exactly when ordinal is at or
\* above the footer's account_entry_count; below it the result is an account
\* or an error, never None.
C2_NoneIffPastTheEnd ==
  out.pc = "get_account"
    => ((IsOk(out.res) /\ ~out.res.value.some)
          <=> out.index >= rd.footer.account_entry_count)

C2_Witness ==
  /\ out.pc = "get_account"
  /\ wr.corrupted
  /\ rd.footer.account_entry_count = MaxAccounts
  /\ out.index = MaxAccounts
  /\ IsOk(out.res)
  /\ ~out.res.value.some

\* C3: a scan that starts at an ordinal s and goes on from the `next` each
\* call returns (always ordinal + 1) visits s, s+1, ..., N-1 in that order,
\* each once, never fails, and ends with None on the call at N (at s when
\* s >= N): from 0 it visits every record; the cursor never passes N.
C3_ScanEnumerates ==
  scan.pc # "idle"
    => LET n == rd.footer.account_entry_count
           last == IF scan.start > n THEN scan.start ELSE n
       IN /\ scan.pc # "failed"
          /\ scan.cursor <= last
          /\ Len(scan.visited) = scan.cursor - scan.start
          /\ \A k \in 1 .. Len(scan.visited) : scan.visited[k] = scan.start + k - 1
          /\ scan.pc = "done"
               => /\ scan.cursor = last
                  /\ out.pc = "get_account"
                  /\ out.index = scan.cursor
                  /\ IsOk(out.res)
                  /\ ~out.res.value.some

C3_Witness ==
  /\ scan.pc = "done"
  /\ scan.start = 0
  /\ scan.visited = [k \in 1 .. MaxAccounts |-> k - 1]

(***************************************************************************)
(* The owner-matching pass (tests::test_account_matches_owners): accounts  *)
(* of no data, with a zero or a nonzero balance and any owner; then        *)
(* account_matches_owners at each recorded offset with candidate lists of  *)
(* owners and decoys in any order, repeats included.                       *)
(***************************************************************************)
\* 0 and 2^56: a nonzero balance whose low bytes are all zero
MatchLamports == {U64_ZERO, <<0, 0, 0, 0, 0, 0, 0, 1>>}

CandidatePool == {Owners[k] : k \in 1 .. NumOwners} \cup Decoys

CandidateLists == UNION {[1 .. n -> CandidatePool] : n \in 0 .. MaxCandidates}

NextMatch ==
  \/ NewWritable
  \/ \E l \in MatchLamports, o \in 0 .. NumOwners - 1 : WriteAccount(l, o, 0)
  \/ WriteIndexBlock
  \/ WriteOwnersBlock
  \/ WriteFooter
  \/ OpenReader
  \/ CloseReader
  \/ \E k \in 1 .. MaxAccounts, c \in CandidateLists : MatchOwners(k, c)

SpecMatch == Init /\ [][NextMatch]_vars

IsNoMatch(r) == r.tag = "Err" /\ r.kind = "NoMatch"

\* the owner address that the owner index of the k-th record written names
TrueOwner(k) == Owners[HotAccountMeta_owner_offset(wr.entries[k].meta) + 1]

Contains(seq, x) == \E i \in 1 .. Len(seq) : seq[i] = x

\* C9: account_matches_owners returns NoMatch for every account whose
\* balance is zero, whatever the candidates, the account's true owner
\* among them or not.
C9_ZeroBalanceNeverMatches ==
  (out.pc = "account_matches_owners"
     /\ HotAccountMeta_lamports(wr.entries[out.entry].meta) = U64_ZERO)
    => IsNoMatch(out.res)

C9_Witness ==
  /\ out.pc = "account_matches_owners"
  /\ HotAccountMeta_lamports(wr.entries[out.entry].meta) = U64_ZERO
  /\ Contains(out.owners, TrueOwner(out.entry))
  /\ IsNoMatch(out.res)

\* C10: for an account with a nonzero balance, account_matches_owners returns
\* the position of the first candidate equal to the address its owner index
\* names in the owners block, whatever the order of the candidates and the
\* decoys among them, and NoMatch exactly when no candidate equals it.
C10_FirstMatchingCandidate ==
  (out.pc = "account_matches_owners"
     /\ HotAccountMeta_lamports(wr.entries[out.entry].meta) # U64_ZERO)
    => IF Contains(out.owners, TrueOwner(out.entry))
         THEN /\ IsOk(out.res)
              /\ out.res.value \in 0 .. Len(out.owners) - 1
              /\ out.owners[out.res.value + 1] = TrueOwner(out.entry)
              /\ \A j \in 1 .. out.res.value : out.owners[j] # TrueOwner(out.entry)
         ELSE IsNoMatch(out.res)

C10_Witness ==
  /\ out.pc = "account_matches_owners"
  /\ HotAccountMeta_lamports(wr.entries[out.entry].meta) # U64_ZERO
  /\ Len(out.owners) = 3
  /\ out.owners[1] \in Decoys
  /\ out.owners[2] = TrueOwner(out.entry)
  /\ out.owners[3] = TrueOwner(out.entry)
  /\ out.res = Ok(1)


\* the finished file as a reader of it sees it
FinishedFile == [mmap |-> fs.bytes, footer |-> wr.footer]

\* the byte offset that the index block of the finished file holds for ordinal i
RecordedOffset(i) ==
  HotAccountOffset_offset(HotStorageReader_get_account_offset(FinishedFile, i).value)

\* C18: in a file produced by the sequential write pass, the offsets that the
\* index records are strictly ascending in ordinal order, and every one of
\* them is below index_block_offset.
C18_OffsetsAscendWithOrdinals ==
  (wr.pc = "done" /\ Len(wr.entries) = wr.footer.account_entry_count)
    => \A i \in 0 .. wr.footer.account_entry_count - 1 :
         /\ WLt(RecordedOffset(i), Wide(wr.footer.index_block_offset))
         /\ \A j \in i + 1 .. wr.footer.account_entry_count - 1 :
              WLt(RecordedOffset(i), RecordedOffset(j))

\* a finished file of MaxAccounts accounts, the first of them without data
C18_Witness ==
  /\ wr.pc = "done"
  /\ Len(wr.entries) = MaxAccounts
  /\ wr.footer.account_entry_count = MaxAccounts
  /\ Len(wr.entries[1].data) = 0
  /\ RecordedOffset(1) = Wide(HotAccountMetaSize)

\* C22: the metadata record is written as exactly 16 bytes with nothing
\* between or after its fields: the balance in bytes 0..8, the packed word in
\* bytes 8..12, the flags word in bytes 12..16, the data following at byte 16;
\* and reading the 16 bytes at the record's offset back as a record gives a
\* record equal to the one written.
C22_RecordIsSixteenBytes ==
  wr.pc = "done"
    => \A i \in 1 .. Len(wr.entries) :
         LET e == wr.entries[i]
             at == WInt(HotAccountOffset_offset(e.offset))
         IN /\ Len(HotAccountMeta_bytes(e.meta)) = 16
            /\ Slice(fs.bytes, at, 8) = e.meta.lamports
            /\ Slice(fs.bytes, at + 8, 4) = e.meta.packed_fields
            /\ Slice(fs.bytes, at + 12, 4) = e.meta.flags
            /\ Slice(fs.bytes, at + 16, Len(e.data)) = e.data
            /\ HotStorageReader_get_account_meta_from_offset(FinishedFile, e.offset)
                 = Ok(e.meta)

\* a finished file whose second record, with a balance, an owner index and a
\* padding that differ from zero, follows a first record with data
C22_Witness ==
  /\ wr.pc = "done"
  /\ Len(wr.entries) = 2
  /\ Len(wr.entries[1].data) > 0
  /\ wr.entries[2].meta.lamports # U64_ZERO
  /\ HotAccountMeta_owner_offset(wr.entries[2].meta) > 0
  /\ HotAccountMeta_account_data_padding(wr.entries[2].meta) > 0
  /\ HotStorageReader_get_account_meta_from_offset(FinishedFile, wr.entries[2].offset)
       = Ok(wr.entries[2].meta)

\* max(0, upper - offset - 16) of byte offsets
FlooredBlockSize(upper, offset) ==
  IF WLe(WAdd(offset, Wide(16)), upper) THEN WSub(upper, WAdd(offset, Wide(16))) ELSE Wide(0)

\* C24: get_account_block_size(offset, ordinal) is max(0, upper - offset - 16),
\* where upper is index_block_offset when ordinal + 1 is the number of
\* accounts and the offset the index block holds for ordinal + 1 otherwise;
\* for the last account the index block is not asked for ordinal + 1, and
\* with upper <= offset + 16 the result is 0, neither an underflow nor an error.
C24_BlockSizeFromNextOffset ==
  out.pc = "get_account_block_size"
    => LET offset == HotAccountOffset_offset(out.offset)
           next == HotStorageReader_get_account_offset(Reader, out.index + 1)
       IN IF out.index + 1 = HotStorageReader_num_accounts(Reader)
            THEN /\ out.reads = <<>>
                 /\ out.res = Ok(FlooredBlockSize(Wide(rd.footer.index_block_offset), offset))
            ELSE /\ out.reads = <<out.index + 1>>
                 /\ IsOk(next)
                      => out.res = Ok(FlooredBlockSize(HotAccountOffset_offset(next.value), offset))

\* the block of an account that is not the last, in a file whose index gives
\* the next account an offset that is below the end of this one's record
C24_Witness ==
  /\ out.pc = "get_account_block_size"
  /\ out.index + 1 < HotStorageReader_num_accounts(Reader)
  /\ out.offset = wr.entries[out.index + 1].offset
  /\ WLt(HotAccountOffset_offset(HotStorageReader_get_account_offset(Reader, out.index + 1).value),
         WAdd(HotAccountOffset_offset(out.offset), Wide(16)))
  /\ out.res = Ok(Wide(0))

\* C20: opening a reader gives either a reader with the footer of the file or
\* an error.  It fails when there is no file and when the tail of the file
\* is not a footer, as for a file whose write pass has not written the
\* footer yet; lookups are served only by a reader that was opened in full.
C20_OpenAllOrNothing ==
  /\ rd.pc = "open"
       => /\ fs.exists
          /\ wr.pc = "done"
          /\ TieredStorageFooter_new_from_mmap(fs.bytes) = Ok(rd.footer)
          /\ rd.footer = wr.footer
  /\ rd.pc = "failed" => rd.err \in {"Io", "MagicNumberMismatch"}
  /\ (scan.pc # "idle" \/ out.pc # "none") => rd.pc = "open"

\* the open of a file that is being written and is longer than a footer, but
\* does not end in one
C20_Witness ==
  /\ rd.pc = "failed"
  /\ rd.err = "MagicNumberMismatch"
  /\ fs.exists
  /\ wr.pc \in {"owners", "footer"}
  /\ Len(fs.bytes) > FOOTER_SIZE

\* where the metadata record of the account that get_account returned starts
ReturnedMetaOffset ==
  HotAccountOffset_offset(HotStorageReader_get_account_offset(Reader, out.index).value)

\* where the account block that get_account returned ends
ReturnedBlockEnd ==
  WAdd(WAdd(ReturnedMetaOffset, Wide(HotAccountMetaSize)),
       Wide(Len(out.res.value.account.account_block)))

\* C15: for every file content, an index block with damaged offsets
\* included, and every ordinal, the metadata record and the account block
\* that get_account returns lie entirely below the footer's
\* index_block_offset.
C15_ReadsBelowIndexBlock ==
  (out.pc = "get_account" /\ IsOk(out.res) /\ out.res.value.some)
    => /\ WLe(WAdd(ReturnedMetaOffset, Wide(HotAccountMetaSize)),
              Wide(rd.footer.index_block_offset))
       /\ WLe(ReturnedBlockEnd, Wide(rd.footer.index_block_offset))

\* an account view whose block runs past index_block_offset, into the index
\* block: the offset recorded for the next ordinal was overwritten with one
\* that lies beyond the accounts blocks
C15_Witness ==
  /\ out.pc = "get_account"
  /\ wr.corrupted
  /\ IsOk(out.res)
  /\ out.res.value.some
  /\ WLt(Wide(rd.footer.index_block_offset), ReturnedBlockEnd)

(***************************************************************************)
(* Account blocks (tests::test_hot_account_meta_full).  A block is laid    *)
(* out as the data, the padding and the optional fields that the flags     *)
(* select, under a metadata record built with that padding and those       *)
(* flags; or it is any run of bytes under any record, as a damaged file    *)
(* can present.  The accessors of the record are then applied to it.       *)
(***************************************************************************)
MaxBlockData == 9

MaxBlockLen == 48

BlockDataLens == (0 .. MaxBlockData) \cup {83}

TEST_RENT_EPOCH == <<7, 0, 0, 0, 0, 0, 0, 0>>

\* the hash of the test: Hash::new_unique gives some 32 bytes
TEST_ACCOUNT_HASH == [i \in 1 .. ACCOUNT_HASH_BYTES |-> 200 + i]

\* HotAccountMeta::new().with_lamports(2314232137).with_account_data_padding(..)
\*   .with_owner_offset(0x1fef_1234).with_flags(..)
BlockMeta(padding, flags) ==
  HotAccountMeta_with_flags(
    BuildMeta(<<73, 97, 240, 137, 0, 0, 0, 0>>, 535761460, padding).value, flags)

WriteBlock(data_len, padding, rent_epoch, account_hash) ==
  /\ out.pc = "none"
  /\ LET flags == AccountMetaFlags_from(rent_epoch, account_hash)
         data == Fill(11, data_len)
         buffer == HotAccountMeta_bytes(BlockMeta(padding, flags))
                     \o data
                     \o Fill(0, padding)
                     \o (IF rent_epoch THEN TEST_RENT_EPOCH ELSE <<>>)
                     \o (IF account_hash THEN TEST_ACCOUNT_HASH ELSE <<>>)
     IN out' = [pc |-> "block", written |-> TRUE,
                meta |-> HotAccountMeta_from_bytes(SubSeq(buffer, 1, HotAccountMetaSize)),
                account_block |-> SubSeq(buffer, HotAccountMetaSize + 1, Len(buffer)),
                data |-> data,
                rent_epoch |-> IF rent_epoch THEN SomeOf(TEST_RENT_EPOCH) ELSE None,
                account_hash |-> IF account_hash THEN SomeOf(TEST_ACCOUNT_HASH) ELSE None]
  /\ UNCHANGED <<settlement, codec, builder, th, attempts, fs, wr, rd, scan>>

\* a block of any length under any record
DamagedBlock(len, padding, rent_epoch, account_hash) ==
  /\ out.pc = "none"
  /\ out' = [pc |-> "block", written |-> FALSE,
             meta |-> BlockMeta(padding, AccountMetaFlags_from(rent_epoch, account_hash)),
             account_block |-> [i \in 1 .. len |-> i]]
  /\ UNCHANGED <<settlement, codec, builder, th, attempts, fs, wr, rd, scan>>

ReadBlock ==
  /\ out.pc = "block"
  /\ out' = [out EXCEPT !.pc = "block_read"] @@
             [optional_fields_offset |->
                HotAccountMeta_optional_fields_offset(out.meta, out.account_block),
              account_data_size |-> HotAccountMeta_account_data_size(out.meta, out.account_block),
              account_data |-> HotAccountMeta_account_data(out.meta, out.account_block),
              read_rent_epoch |-> HotAccountMeta_rent_epoch(out.meta, out.account_block),
              read_account_hash |-> HotAccountMeta_account_hash(out.meta, out.account_block)]
  /\ UNCHANGED <<settlement, codec, builder, th, attempts, fs, wr, rd, scan>>

NextBlock ==
  \/ \E n \in BlockDataLens, p \in 0 .. MAX_HOT_PADDING, r \in BOOLEAN, h \in BOOLEAN :
       WriteBlock(n, p, r, h)
  \/ \E n \in 0 .. MaxBlockLen, p \in 0 .. MAX_HOT_PADDING, r \in BOOLEAN, h \in BOOLEAN :
       DamagedBlock(n, p, r, h)
  \/ ReadBlock

SpecBlock == Init /\ [][NextBlock]_vars

\* C16: for a block laid out as data, p <= 7 padding bytes and the optional
\* fields the flags select, under a record built with padding p and those
\* flags, account_data_size is the length of the data, account_data is the
\* data, and rent_epoch and account_hash give back the optional values
\* written (nothing for a field the flags leave out).
C16_BlockRoundTrip ==
  (out.pc = "block_read" /\ out.written)
    => /\ out.account_data_size = Len(out.data)
       /\ out.account_data = out.data
       /\ out.read_rent_epoch = out.rent_epoch
       /\ out.read_account_hash = out.account_hash

\* the block of the test: 83 bytes of data, 5 of padding, both fields
C16_Witness ==
  /\ out.pc = "block_read"
  /\ out.written
  /\ Len(out.data) = 83
  /\ HotAccountMeta_account_data_padding(out.meta) = 5
  /\ out.read_rent_epoch = SomeOf(TEST_RENT_EPOCH)
  /\ out.read_account_hash = SomeOf(TEST_ACCOUNT_HASH)

\* C17: for every record and every block, one shorter than the padding plus
\* the optional fields included, the sizes neither underflow nor fail:
\* 0 <= account_data_size <= optional_fields_offset <= block length, and
\* account_data is the prefix of the block of that size.
C17_SizesNeverUnderflow ==
  out.pc = "block_read"
    => /\ 0 <= out.account_data_size
       /\ out.account_data_size <= out.optional_fields_offset
       /\ out.optional_fields_offset <= Len(out.account_block)
       /\ out.account_data = SubSeq(out.account_block, 1, out.account_data_size)
       /\ Len(out.account_data) = out.account_data_size

\* a block shorter than its padding and optional fields together
C17_Witness ==
  /\ out.pc = "block_read"
  /\ ~out.written
  /\ Len(out.account_block) > 0
  /\ Len(out.account_block)
       < HotAccountMeta_account_data_padding(out.meta)
           + AccountMetaOptionalFields_size_from_flags(out.meta.flags)
  /\ out.account_data_size = 0

Max0(n) == IF n > 0 THEN n ELSE 0

\* the bytes of optional fields that the flags of the record that was read select
SelectedSize ==
  (IF AccountMetaFlags_has_rent_epoch(out.meta.flags) THEN 8 ELSE 0)
    + (IF AccountMetaFlags_has_account_hash(out.meta.flags) THEN 32 ELSE 0)

\* C25: for every record and every block, optional_fields_offset is
\* max(0, block length - size of the optional fields the flags select) and
\* account_data_size is max(0, optional_fields_offset - padding); when the
\* block is at least as long as the padding and the optional fields together,
\* account_data_size + padding + optional fields size is the block length.
C25_SizesAreFlooredDifferences ==
  out.pc = "block_read"
    => LET len == Len(out.account_block)
           padding == HotAccountMeta_account_data_padding(out.meta)
       IN /\ out.optional_fields_offset = Max0(len - SelectedSize)
          /\ out.account_data_size = Max0(out.optional_fields_offset - padding)
          /\ len >= padding + SelectedSize
               => out.account_data_size + padding + SelectedSize = len

\* a block that holds the optional fields but not the whole padding
C25_Witness ==
  /\ out.pc = "block_read"
  /\ ~out.written
  /\ SelectedSize = 40
  /\ out.optional_fields_offset > 0
  /\ out.optional_fields_offset < HotAccountMeta_account_data_padding(out.meta)
  /\ out.account_data_size = 0

\* C26: for every block, rent_epoch gives nothing when the rent-epoch flag
\* is not set and account_hash gives nothing when the account-hash flag is
\* not set; a value that is given is the bytes of the block at
\* optional_fields_offset plus the field's place among the selected fields
\* (the rent epoch first, the account hash after it when both are selected).
C26_OptionalFieldsFollowFlags ==
  out.pc = "block_read"
    => LET has_rent_epoch == AccountMetaFlags_has_rent_epoch(out.meta.flags)
           has_account_hash == AccountMetaFlags_has_account_hash(out.meta.flags)
           at == Max0(Len(out.account_block) - SelectedSize)
       IN /\ ~has_rent_epoch => out.read_rent_epoch = None
          /\ ~has_account_hash => out.read_account_hash = None
          /\ out.read_rent_epoch.some
               => out.read_rent_epoch.value = SubSeq(out.account_block, at + 1, at + 8)
          /\ out.read_account_hash.some
               => out.read_account_hash.value
                    = SubSeq(out.account_block,
                             at + (IF has_rent_epoch THEN 8 ELSE 0) + 1,
                             at + (IF has_rent_epoch THEN 8 ELSE 0) + 32)

\* a block long enough to hold a rent epoch, read under a record whose flags
\* select the account hash alone
C26_Witness ==
  /\ out.pc = "block_read"
  /\ ~out.written
  /\ ~AccountMetaFlags_has_rent_epoch(out.meta.flags)
  /\ AccountMetaFlags_has_account_hash(out.meta.flags)
  /\ Len(out.account_block) = MaxBlockLen
  /\ out.read_rent_epoch = None
  /\ out.read_account_hash.some

(***************************************************************************)
(* A reader shared by threads.  Once the file is finished and the reader   *)
(* is open, the threads look up in any interleaving: a call is entered in  *)
(* one step and returns in another, with the steps of the other threads in *)
(* between.                                                                *)
(***************************************************************************)
SharedAccount == [lamports |-> <<73, 97, 240, 137, 0, 0, 0, 0>>, owner_offset |-> NumOwners - 1]

SharedLookups ==
  {[op |-> "get_account", index |-> i] : i \in 0 .. MaxAccounts}
    \cup {[op |-> "account_matches_owners", offset |-> Wide(0),
           owners |-> <<Pubkey(51), Owners[NumOwners]>>]}
    \cup {[op |-> "num_accounts"], [op |-> "footer"]}

NextShared ==
  \/ NewWritable
  \/ WriteAccount(SharedAccount.lamports, SharedAccount.owner_offset, HOT_ACCOUNT_ALIGNMENT + 1)
  \/ WriteIndexBlock
  \/ WriteOwnersBlock
  \/ WriteFooter
  \/ OpenReader
  \/ \E t \in Threads, call \in SharedLookups : ThreadCall(t, call)
  \/ \E t \in Threads : ThreadReturn(t)
  \/ \E t \in Threads : ThreadDone(t)

SpecShared == Init /\ [][NextShared]_vars

\* the reader as new_from_path builds it from the file
ReaderAsOpened(file) ==
  [mmap |-> file.bytes, footer |-> TieredStorageFooter_new_from_mmap(file.bytes).value]

NextWriters ==
  \/ NewWriter
  \/ \E a \in ScanAccounts, n \in CorruptDataLens :
       WriteAccount(a.lamports, a.owner_offset, n)
  \/ WriteIndexBlock
  \/ WriteOwnersBlock
  \/ WriteFooter

SpecWriters == Init /\ [][NextWriters]_vars

\* C12: of all the attempts to create a writer on the path, however they are
\* interleaved with the write pass, exactly the first one succeeds and every
\* later one fails.
C12_OnlyFirstWriterSucceeds ==
  \A i \in 1 .. Len(attempts) : (attempts[i] = "Ok") <=> (i = 1)

\* attempts were made while the file was being written and after its footer
C12_Witness ==
  /\ Len(attempts) = MaxAttempts
  /\ attempts[2] = "Err"
  /\ attempts[MaxAttempts] = "Err"
  /\ wr.pc = "done"

\* C13: creating a writer on a path that names a file, whether the file is
\* still being written or already has its footer, returns an error and leaves
\* the file's bytes (and so its length) as they were.
C13_ExistingFileUntouched ==
  [][(attempts' # attempts /\ fs.exists)
       => (attempts'[Len(attempts')] = "Err" /\ fs' = fs)]_vars

\* a failed attempt on a file that is finalized and not empty
C13_Witness ==
  /\ Len(attempts) > 1
  /\ attempts[Len(attempts)] = "Err"
  /\ wr.pc = "done"
  /\ Len(fs.bytes) > FOOTER_SIZE


(***************************************************************************)
(* Lookups by offset.  The caller hands the reader an offset of its own    *)
(* choice: inside the accounts blocks, at the index block, past it, and as *)
(* far as a u32 reaches.  The files are those of the write pass, with      *)
(* owner indexes inside and outside the owners block, and the file that    *)
(* holds only a footer.                                                    *)
(***************************************************************************)
MaxRawWord == 9

RawWords ==
  {Wide(k) : k \in 0 .. MaxRawWord}
    \cup {Wide(FooterOnlyIndexBlockOffset \div HOT_ACCOUNT_ALIGNMENT - k) : k \in 0 .. 2}
    \cup {U32_MAX}

\* 0x1fff_ef98 is an owner index of the tests that no owners block here holds
RawAccounts ==
  ScanAccounts
    \cup {[lamports |-> <<73, 97, 240, 137, 0, 0, 0, 0>>, owner_offset |-> 536866712],
          [lamports |-> U64_ZERO, owner_offset |-> 536866712]}

RawCandidates == {<<Owners[NumOwners], Owners[1]>>, <<Pubkey(51)>>}

NextOffsets ==
  \/ NewWritable
  \/ \E a \in RawAccounts, n \in CorruptDataLens :
       WriteAccount(a.lamports, a.owner_offset, n)
  \/ WriteIndexBlock
  \/ WriteOwnersBlock
  \/ WriteFooter
  \/ WriteFooterOnly
  \/ WriteTestFooter
  \/ OpenReader
  \/ CloseReader
  \/ \E w \in RawWords : MetaAt(w)
  \/ \E w \in RawWords, c \in RawCandidates : MatchOwnersAt(w, c)

SpecOffsets == Init /\ [][NextOffsets]_vars

\* the metadata record at the offset would cross the accounts-blocks boundary
MetaOverruns(word) ==
  ~WLe(WAdd(WMul8(word), Wide(HotAccountMetaSize)), Wide(rd.footer.index_block_offset))

\* the bytes of the metadata record at the offset are not all in the mapping
MetaUnreadable(word) ==
  ~WLe(WAdd(WMul8(word), Wide(HotAccountMetaSize)), Wide(Len(fs.bytes)))

\* the record at the offset has a balance and names an owner whose address
\* is not all in the mapping
OwnerUnreadable(word) ==
  /\ ~MetaUnreadable(word)
  /\ LET meta == HotAccountMeta_from_bytes(Slice(fs.bytes, WInt(WMul8(word)), HotAccountMetaSize))
         index == HotAccountMeta_owner_offset(meta)
     IN /\ HotAccountMeta_lamports(meta) # U64_ZERO
        /\ \/ index >= Len(fs.bytes)
           \/ rd.footer.owners_block_offset + PUBKEY_BYTES * (index + 1) > Len(fs.bytes)

\* C11: whenever the data cannot be loaded, and in particular when the
\* metadata at account_offset would cross the accounts-blocks boundary,
\* account_matches_owners returns Err(UnableToLoad), which is not NoMatch.
C11_UnableToLoadOnAnyFailure ==
  out.pc = "account_matches_owners_at"
    => /\ UnableToLoad # NoMatch
       /\ (MetaOverruns(out.offset) \/ MetaUnreadable(out.offset) \/ OwnerUnreadable(out.offset))
            => out.res = UnableToLoad

\* the call whose offset crosses the boundary of a file that holds accounts:
\* it ends in the panic of get_account_meta_from_offset
C11_Witness ==
  /\ out.pc = "account_matches_owners_at"
  /\ Len(wr.entries) > 0
  /\ MetaOverruns(out.offset)
  /\ out.res = BoundaryPanic

\* the record that lies at the offset, when its bytes are all in the mapping
RecordAt(word) ==
  HotAccountMeta_from_bytes(Slice(fs.bytes, WInt(WMul8(word)), HotAccountMetaSize))

\* the owner index of a record names an address that is not all in the mapping
OwnerIndexUnresolvable(meta) ==
  LET index == HotAccountMeta_owner_offset(meta)
  IN \/ index >= Len(fs.bytes)
     \/ rd.footer.owners_block_offset + PUBKEY_BYTES * (index + 1) > Len(fs.bytes)

\* C27: account_matches_owners does not consult the owners block for an
\* account whose balance is zero: when the record at the offset can be read
\* and its balance is zero the result is NoMatch, also when its owner index
\* cannot be resolved, so a call that ends in UnableToLoad on a record that
\* could be read is a call on a record with a balance.
C27_ZeroBalanceSkipsOwners ==
  (out.pc = "account_matches_owners_at"
     /\ ~MetaOverruns(out.offset) /\ ~MetaUnreadable(out.offset))
    => /\ HotAccountMeta_lamports(RecordAt(out.offset)) = U64_ZERO
            => out.res = NoMatch
       /\ out.res = UnableToLoad
            => /\ HotAccountMeta_lamports(RecordAt(out.offset)) # U64_ZERO
               /\ OwnerIndexUnresolvable(RecordAt(out.offset))

\* the call on the first record of a finished file, whose balance is zero
\* and whose owner index no owners block holds
C27_Witness ==
  /\ out.pc = "account_matches_owners_at"
  /\ out.offset = Wide(0)
  /\ Len(wr.entries) > 0
  /\ wr.entries[1].meta = RecordAt(out.offset)
  /\ HotAccountMeta_lamports(RecordAt(out.offset)) = U64_ZERO
  /\ OwnerIndexUnresolvable(RecordAt(out.offset))
  /\ out.res = NoMatch

\* C21: a reader opened on a file whose footer was written gives, from
\* footer(), that footer field for field, and from num_accounts() its
\* account_entry_count, at every moment of its life, lookups made or not.
C21_FooterReadsBack ==
  rd.pc = "open"
    => /\ HotStorageReader_footer(Reader) = wr.footer
       /\ HotStorageReader_num_accounts(Reader) = wr.footer.account_entry_count

\* the footer of the test, still read back after a lookup was made
C21_Witness ==
  /\ rd.pc = "open"
  /\ out.pc # "none"
  /\ HotStorageReader_footer(Reader) = TestFooter
  /\ HotStorageReader_num_accounts(Reader) = 300

\* C14: reading the metadata at an offset succeeds only if offset + 16 is at
\* most the footer's index_block_offset, and then gives the 16 bytes at that
\* offset; every other offset, index_block_offset itself included, panics
\* with 'would exceed accounts blocks offset boundary'.
C14_MetaReadBelowIndexBlock ==
  out.pc = "get_account_meta_from_offset"
    => /\ MetaOverruns(out.offset) => out.res = BoundaryPanic
       /\ IsOk(out.res)
            => /\ ~MetaOverruns(out.offset)
               /\ out.res.value
                    = HotAccountMeta_from_bytes(
                        Slice(fs.bytes, WInt(WMul8(out.offset)), HotAccountMetaSize))

\* the read at index_block_offset itself, of a file that holds accounts
C14_Witness ==
  /\ out.pc = "get_account_meta_from_offset"
  /\ Len(wr.entries) > 0
  /\ WMul8(out.offset) = Wide(rd.footer.index_block_offset)
  /\ out.res = BoundaryPanic

(***************************************************************************)
(* Fee settlement.  Instructions of the three kinds reach the data         *)
(* account, which starts uninitialized, in any order: with and without the *)
(* data account among the instruction's accounts, for owners that have a   *)
(* settlement account and for one that has none, with amounts that are     *)
(* small and amounts as large as a u64 goes.                               *)
(***************************************************************************)
SettlementOwners == {Pubkey(61), Pubkey(62)}

Stranger == Pubkey(63)

BillLists ==
  {<<[key |-> Pubkey(61), amount |-> U64Of(6)]>>,
   <<[key |-> Stranger, amount |-> U64Max]>>,
   <<[key |-> Pubkey(61), amount |-> U64Of(6)], [key |-> Pubkey(62), amount |-> U64Of(1)]>>}

WithdrawAmounts == {U64Of(1), U64Max}

NextSettlement ==
  \/ \E d \in BOOLEAN, o \in SettlementOwners, t \in SettlementAccountTypes :
       InitializeAccount(d, o, t)
  \/ \E d \in BOOLEAN, b \in BillLists, c \in BOOLEAN : SettleFeeBill(d, b, c)
  \/ \E d \in BOOLEAN, a \in SettlementOwners \cup {Stranger}, n \in WithdrawAmounts,
        c \in BOOLEAN :
       WithdrawFeeBill(d, a, n, c)

SpecSettlement == Init /\ [][NextSettlement]_vars

\* the settlement accounts of a state of the data account
AccountsOf(state) == IF state.tag = "FeeBillSettled" THEN state.accounts ELSE <<>>

\* the settlement account of an owner in a state of the data account
AccountOf(state, owner) == MapOf(AccountsOf(state))[owner]

HasAccount(state, owner) == \E i \in 1 .. Len(AccountsOf(state)) : AccountsOf(state)[i].owner = owner

\* C28: after any sequence of InitializeAccount, SettleFeeBill and
\* WithdrawFeeBill on a data account that started uninitialized, and as long
\* as no u64 addition has overflowed, every settlement account has
\* amount = withdrawable + withdrawed, and no two settlement accounts of the
\* list have the same owner.
C28_AmountsBalance ==
  ~settlement.overflowed
    => LET accounts == AccountsOf(settlement.data)
       IN /\ \A i \in 1 .. Len(accounts) :
               LET sum == U64Sum(accounts[i].withdrawable, accounts[i].withdrawed)
               IN ~sum.overflow /\ accounts[i].amount = sum.value
          /\ \A i, j \in 1 .. Len(accounts) :
               accounts[i].owner = accounts[j].owner => i = j

\* two settlement accounts, one of which has been credited and has withdrawn
\* a part of it, a second InitializeAccount for its owner having been refused
C28_Witness ==
  /\ ~settlement.overflowed
  /\ Len(AccountsOf(settlement.data)) = 2
  /\ settlement.call.op = "InitializeAccount"
  /\ settlement.res = Err("InvalidAccountData")
  /\ \E i \in 1 .. 2 :
       LET account == AccountsOf(settlement.data)[i]
       IN /\ U64Lt(U64Of(0), account.withdrawable)
          /\ U64Lt(U64Of(0), account.withdrawed)

\* the owners that have a settlement account in a state of the data account
OwnersOf(state) == {AccountsOf(state)[i].owner : i \in 1 .. Len(AccountsOf(state))}

\* C29: WithdrawFeeBill(address, amount) on the data account fails with
\* InvalidInstructionData when amount is greater than the withdrawable amount
\* of the account of the address, and with InvalidAccountData when the
\* address has no settlement account, the data account being left as it was
\* in both cases; when it succeeds, withdrawable is less by exactly amount,
\* withdrawed is more by exactly amount, and every other settlement account
\* is as it was.
C29_WithdrawIsExact ==
  (settlement.call.op = "WithdrawFeeBill" /\ settlement.call.has_data_account)
    => LET before == settlement.before
           address == settlement.call.address
           amount == settlement.call.amount
       IN /\ (HasAccount(before, address)
                /\ U64Lt(AccountOf(before, address).withdrawable, amount))
               => /\ settlement.res = Err("InvalidInstructionData")
                  /\ settlement.data = before
          /\ ~HasAccount(before, address)
               => /\ settlement.res = Err("InvalidAccountData")
                  /\ settlement.data = before
          /\ settlement.res = OkUnit
               => LET was == AccountOf(before, address)
                      is == AccountOf(settlement.data, address)
                      more == U64Sum(was.withdrawed, amount)
                  IN /\ ~U64Lt(was.withdrawable, amount)
                     /\ is.withdrawable = U64Sub(was.withdrawable, amount)
                     /\ ~more.overflow
                     /\ is.withdrawed = more.value
                     /\ is.amount = was.amount
                     /\ OwnersOf(settlement.data) = OwnersOf(before)
                     /\ \A o \in OwnersOf(before) \ {address} :
                          AccountOf(settlement.data, o) = AccountOf(before, o)

\* a withdrawal that succeeds although withdrawed + amount does not fit a
\* u64: the withdrawed amount it leaves is smaller than the one it found
C29_Witness ==
  /\ settlement.call.op = "WithdrawFeeBill"
  /\ settlement.call.has_data_account
  /\ settlement.res = OkUnit
  /\ U64Sum(AccountOf(settlement.before, settlement.call.address).withdrawed,
            settlement.call.amount).overflow
  /\ U64Lt(AccountOf(settlement.data, settlement.call.address).withdrawed,
           AccountOf(settlement.before, settlement.call.address).withdrawed)

=============================================================================
